---- MODULE Spec2Model ----
(***************************************************************************)
(* Message scheduling, dispatch and delivery-acknowledgment correlation of *)
(* the zap-back-end service: the CronService dispatcher, the manual send   *)
(* handlers of the message controller, the WAHA webhook ACK handlers and   *)
(* the status poll, over one record store of Message rows.                 *)
(*                                                                         *)
(* Time is counted in whole days since 1 January of EpochYear; a Date is   *)
(* its day number, and the calendar fields are computed from it the way    *)
(* the JavaScript Date does (months are 0-based).                          *)
(*                                                                         *)
(* The webhook controller also resolves Confirmation rows from the replies *)
(* of contacts and keeps a buffer of the events it received.               *)
(***************************************************************************)
EXTENDS Integers, Sequences, FiniteSets, TLC

(* ------------------------------ bounds -------------------------------- *)
NumUsers == 2      \* owners
MaxMsgs == 3       \* Message rows ever created (authoring + clones)
MaxRuns == 2       \* scheduler tick invocations that may overlap
MaxEvents == 2      \* external stimuli: manual sends, ACK webhooks, polls, faults
MaxConfs == 2       \* Confirmation rows ever created
MaxRequests == 102  \* webhook requests in a row when the buffer is filled
MaxTimers == 3      \* timers cron.schedule ever creates
MaxClock == 1      \* times the clock is advanced
ClockStep == 31    \* days between two observed instants
StartDay == 14     \* first instant: 15 January of EpochYear
EpochYear == 2026  \* year of day number 0
ProbeYears == 3    \* years of scheduledAt dates the recurrence is run over

Null == -1         \* a null column / a missing value
EmptyId == 0       \* the empty string '' as a transport message id

Users == 1..NumUsers
Ids == 1..MaxMsgs
Runs == 1..MaxRuns

SoleOwner == CHOOSE u \in Users : \A v \in Users : u <= v

(* ------------------------- calendar arithmetic ------------------------ *)
IsLeap(y) == (y % 4 = 0 /\ y % 100 # 0) \/ y % 400 = 0

\* m is a 0-based month, as Date.getMonth() returns it
DaysInMonth(y, m) ==
  IF m = 1 THEN (IF IsLeap(y) THEN 29 ELSE 28)
  ELSE IF m \in {3, 5, 8, 10} THEN 30 ELSE 31

DaysInYear(y) == IF IsLeap(y) THEN 366 ELSE 365

RECURSIVE DaysBeforeYear(_)
DaysBeforeYear(y) ==
  IF y <= EpochYear THEN 0 ELSE DaysBeforeYear(y - 1) + DaysInYear(y - 1)

RECURSIVE DaysBeforeMonth(_, _)
DaysBeforeMonth(y, m) ==
  IF m = 0 THEN 0 ELSE DaysBeforeMonth(y, m - 1) + DaysInMonth(y, m - 1)

\* MakeDay of ECMAScript: month and day may be out of range and carry over
MakeDay(y, m, d) ==
  LET yy == y + (m \div 12)
      mm == m % 12
  IN DaysBeforeYear(yy) + DaysBeforeMonth(yy, mm) + (d - 1)

RECURSIVE YearOf(_, _)
YearOf(t, y) ==
  IF t < DaysBeforeYear(y + 1) THEN y ELSE YearOf(t, y + 1)

RECURSIVE MonthOf(_, _, _)
MonthOf(t, y, m) ==
  IF t < DaysBeforeYear(y) + DaysBeforeMonth(y, m + 1) THEN m
  ELSE MonthOf(t, y, m + 1)

getFullYear(t) == YearOf(t, EpochYear)
getMonth(t) == MonthOf(t, getFullYear(t), 0)
getDate(t) ==
  t - DaysBeforeYear(getFullYear(t))
    - DaysBeforeMonth(getFullYear(t), getMonth(t)) + 1

\* Date.prototype.setMonth(month): year and day of month are kept, then MakeDay
setMonth(t, month) == MakeDay(getFullYear(t), month, getDate(t))

\* nextMonth.setMonth(nextMonth.getMonth() + 1)
NextMonthMutant(t) ==
  LET y == getFullYear(t)
      m == getMonth(t) + 1
      yy == y + (m \div 12)
      mm == m % 12
      d == getDate(t)
      dd == IF d > DaysInMonth(yy, mm) THEN DaysInMonth(yy, mm) ELSE d
  IN MakeDay(yy, mm, dd)

NextMonth(t) == setMonth(t, getMonth(t) + 1)


(* ------------------------------- state -------------------------------- *)
VARIABLES
  now,                \* the current instant (day number)
  messages,           \* the Message table: id -> row, for the rows that exist
  nextId,             \* next Message id the store assigns
  session,            \* transport session status of each user
  processingMessages, \* CronService.processingMessages
  cronPc,             \* position of each tick invocation
  cronGroups,         \* per invocation: the remaining groups of its due-list
  manual,             \* the sendMessageNow request in progress
  bulk,               \* the createBulkMessages(sendNow) request in progress
  pollList,           \* checkMessageStatuses: rows still to be looked up
  sendCount,          \* per Message id: calls of the transport's send operation
  nextExt,            \* next message id the transport assigns
  accepted,           \* ids of the Messages whose text the transport accepted
  events,             \* external stimuli used so far
  recentEvents,       \* the webhook controller's buffer of received events
  confirmations,      \* the Confirmation table: id -> row
  nextConf,           \* next Confirmation id the store assigns
  inflight,           \* webhook requests waiting for prisma.confirmation.update
  httpRes,            \* the last exchange with the webhook controller
  isRunning,          \* CronService.isRunning
  task,               \* CronService.task: the timer it refers to, or Null
  timers,             \* the timers of cron.schedule that have not been stopped
  nextTimer,          \* next timer cron.schedule creates
  whatsAppSession,    \* the WhatsAppSession table: one row per user
  edit                \* the updateMessage request in progress

vars == <<now, messages, nextId, session, processingMessages, cronPc, cronGroups,
          manual, bulk, pollList, sendCount, nextExt, accepted, whatsAppSession, edit, events, recentEvents,
          confirmations, nextConf, inflight, httpRes, isRunning, task, timers,
          nextTimer>>

\* the state of the scheduler's switch
schedVars == <<isRunning, task, timers, nextTimer>>

\* the state of the confirmation replies and of the controller's responses
replyVars == <<confirmations, nextConf, inflight, httpRes>>

\* each user's contact (contacts belong to exactly one user)
ContactOf(u) == u

\* the content a user writes (it differs per user)
ContentOf(u) == u

Exists(id) == id \in DOMAIN messages

NewMessage(id, content, status, scheduledAt, userId, contactId, recurrenceType, originalMessageId, isRecurringClone) ==
  [id |-> id, content |-> content, status |-> status, scheduledAt |-> scheduledAt,
   sentAt |-> Null, deliveredAt |-> Null, readAt |-> Null, externalId |-> Null,
   recurrenceType |-> recurrenceType, originalMessageId |-> originalMessageId,
   isRecurringClone |-> isRecurringClone, userId |-> userId, contactId |-> contactId]

\* prisma.message.create
Insert(row) == (row.id :> row) @@ messages

\* prisma.message.delete
RemoveMutant(id) == messages

Remove(id) == [i \in (DOMAIN messages) \ {id} |-> messages[i]]

\* prisma.message.update({ where: { id }, data })
Patch(id, data) ==
  [messages EXCEPT ![id] =
     [f \in DOMAIN @ |-> IF f \in DOMAIN data THEN data[f] ELSE @[f]]]

\* ascending sequence of the elements of a finite set of numbers
RECURSIVE SortedSeq(_)
SortedSeq(S) ==
  IF S = {} THEN <<>>
  ELSE LET lo == CHOOSE x \in S : \A y \in S : x <= y
       IN <<lo>> \o SortedSeq(S \ {lo})

Idle == [pc |-> "idle", id |-> Null, u |-> Null]

\* no updateMessage request is between its read and its write
NoEdit == [pc |-> "idle", id |-> Null, content |-> Null, scheduledAt |-> Null]

\* the last exchange of the webhook controller, a request's limit with its
\* response: none yet, res.json({ received: true }), res.status(500).json({ error })
NoResponse == [status |-> Null, received |-> FALSE, limit |-> Null, events |-> <<>>, total |-> Null]
Received == [status |-> 200, received |-> TRUE, limit |-> Null, events |-> <<>>, total |-> Null]
ServerError == [status |-> 500, received |-> FALSE, limit |-> Null, events |-> <<>>, total |-> Null]

\* the service after start-up at instant t over a store that holds the given
\* rows: no request in progress, the scheduler started
BootWith(t, rows) ==
  /\ now = t
  /\ messages = rows
  /\ nextId = Cardinality(DOMAIN rows) + 1
  /\ session \in [Users -> {"WORKING", "STOPPED"}]
  /\ processingMessages = {}
  /\ cronPc = [r \in Runs |-> "idle"]
  /\ cronGroups = [r \in Runs |-> <<>>]
  /\ manual = Idle
  /\ bulk = [pc |-> "idle", queue |-> <<>>, u |-> Null]
  /\ pollList = <<>>
  /\ sendCount = [i \in Ids |-> 0]
  /\ accepted = {i \in DOMAIN rows : rows[i].externalId # Null}
  /\ nextExt = Cardinality(accepted) + 1
  /\ events = 0
  /\ recentEvents = <<>>
  /\ confirmations = <<>>
  /\ nextConf = 1
  /\ inflight = <<>>
  /\ httpRes = NoResponse
  /\ isRunning = TRUE
  /\ task = 1
  /\ timers = {1}
  /\ nextTimer = 2
  /\ whatsAppSession = [u \in Users |-> [status |-> session[u], phoneNumber |-> <<>>, profileName |-> <<>>]]
  /\ edit = NoEdit

\* the service after start-up at instant t over an empty store
Boot(t) == BootWith(t, <<>>)

Init == Boot(StartDay)

(* ------------------------------ environment --------------------------- *)
\* time passes
AdvanceTime ==
  /\ now < StartDay + MaxClock * ClockStep
  /\ now' = now + ClockStep
  /\ UNCHANGED <<messages, nextId, session, processingMessages, cronPc, cronGroups,
                 manual, bulk, pollList, sendCount, nextExt, accepted, whatsAppSession, edit, events, recentEvents, replyVars, schedVars>>

\* the user's transport session connects or disconnects
SessionChange(u) ==
  /\ events < MaxEvents
  /\ events' = events + 1
  /\ session' = [session EXCEPT ![u] = IF @ = "WORKING" THEN "STOPPED" ELSE "WORKING"]
  /\ UNCHANGED <<now, messages, nextId, processingMessages, cronPc, cronGroups,
                 manual, bulk, pollList, sendCount, nextExt, accepted, whatsAppSession, edit, recentEvents, replyVars, schedVars>>

\* WAHAService.checkConnection
checkConnectionMutant(u) == TRUE

NeverConnectedMutant(u) == FALSE

checkConnection(u) == session[u] = "WORKING"

(* ------------------------------ authoring ----------------------------- *)
\* createMessage: scheduledAt given => SCHEDULED, otherwise PENDING
CreateMessage(u, scheduledAt) ==
  /\ nextId <= MaxMsgs
  /\ messages' = Insert(NewMessage(nextId, ContentOf(u),
                    IF scheduledAt # Null THEN "SCHEDULED" ELSE "PENDING",
                    scheduledAt, u, ContactOf(u), "NONE", Null, FALSE))
  /\ nextId' = nextId + 1
  /\ UNCHANGED <<now, session, processingMessages, cronPc, cronGroups,
                 manual, bulk, pollList, sendCount, nextExt, accepted, whatsAppSession, edit, events, recentEvents, replyVars, schedVars>>

\* createBulkMessages for contactIds = [ContactOf(u)]: one row per contact;
\* with sendNow the rows are PENDING and the request goes on to send them
CreateBulkMessages(u, scheduledAt, sendNow, recurrenceType) ==
  /\ nextId <= MaxMsgs
  /\ sendNow => bulk.pc = "idle"
  /\ messages' = Insert(NewMessage(nextId, ContentOf(u),
                    IF sendNow THEN "PENDING"
                    ELSE IF scheduledAt # Null THEN "SCHEDULED" ELSE "PENDING",
                    scheduledAt, u, ContactOf(u), recurrenceType, Null, FALSE))
  /\ nextId' = nextId + 1
  /\ bulk' = IF sendNow THEN [pc |-> "check", queue |-> <<nextId>>, u |-> u] ELSE bulk
  /\ UNCHANGED <<now, session, processingMessages, cronPc, cronGroups,
                 manual, pollList, sendCount, nextExt, accepted, whatsAppSession, edit, events, recentEvents, replyVars, schedVars>>

(* ------------------------ CronService (scheduler) --------------------- *)
\* findMany({ where: { status: SCHEDULED, scheduledAt: { lte: now } } })
DueIds ==
  {i \in DOMAIN messages :
     /\ messages[i].status = "SCHEDULED"
     /\ messages[i].scheduledAt # Null
     /\ messages[i].scheduledAt <= now}

\* the owners of a list of rows, in order of first appearance (Map insertion order)
RECURSIVE OwnersInOrder(_, _)
OwnersInOrder(rows, seen) ==
  IF rows = <<>> THEN <<>>
  ELSE IF Head(rows).userId \in seen THEN OwnersInOrder(Tail(rows), seen)
  ELSE <<Head(rows).userId>> \o OwnersInOrder(Tail(rows), seen \cup {Head(rows).userId})

\* messagesByUser: one list of rows per owner
GroupByUser(rows) ==
  LET owners == OwnersInOrder(rows, {})
  IN [k \in 1..Len(owners) |->
        SelectSeq(rows, LAMBDA m : m.userId = owners[k])]

Snapshot(ids) == LET s == SortedSeq(ids) IN [k \in 1..Len(s) |-> messages[s[k]]]

CurGroup(r) == Head(cronGroups[r])
CurMsg(r) == Head(CurGroup(r))

\* the dispatch of the current message has claimed it and not yet released it
InDispatch(r) == cronPc[r] \in {"sending", "expand", "failread", "failwrite"}

cronFrame == <<now, session, manual, bulk, pollList, recentEvents, replyVars, schedVars>>

\* processScheduledMessages: read the due-list, group it by owner and ask for the
\* first owner's connection
CronTick(r) ==
  /\ timers # {}
  /\ cronPc[r] = "idle"
  /\ DueIds # {}
  /\ cronGroups' = [cronGroups EXCEPT ![r] = GroupByUser(Snapshot(DueIds))]
  /\ cronPc' = [cronPc EXCEPT ![r] = "check"]
  /\ UNCHANGED <<messages, nextId, processingMessages, sendCount, nextExt, accepted, whatsAppSession, edit, events>>
  /\ UNCHANGED cronFrame

\* what is left of the timers after the due-list query or the grouping raised:
\* the catch block of processScheduledMessages logs the error
AfterTickErrorMutant(set) == {}

AfterTickError(set) == set

\* processScheduledMessages while a message is due: the query for the due-list,
\* or the grouping, raises
CronTickFailed(r) ==
  /\ timers # {}
  /\ cronPc[r] = "idle"
  /\ DueIds # {}
  /\ events < MaxEvents
  /\ events' = events + 1
  /\ timers' = AfterTickError(timers)
  /\ UNCHANGED <<messages, nextId, processingMessages, cronPc, cronGroups, sendCount, nextExt, accepted, whatsAppSession, edit>>
  /\ UNCHANGED <<isRunning, task, nextTimer>>
  /\ UNCHANGED <<now, session, manual, bulk, pollList, recentEvents, replyVars>>

switchFrame == <<now, messages, nextId, session, processingMessages, cronPc, cronGroups, manual, bulk, pollList, sendCount, nextExt, accepted, whatsAppSession, edit, events, recentEvents, replyVars>>

\* this.isRunning
AlreadyRunningMutant == FALSE

AlreadyRunning == isRunning

\* CronService.start: nothing when it is running, otherwise a timer is scheduled
start ==
  /\ IF AlreadyRunning
       THEN UNCHANGED <<isRunning, task, timers, nextTimer>>
       ELSE /\ nextTimer <= MaxTimers
            /\ task' = nextTimer
            /\ timers' = timers \cup {nextTimer}
            /\ nextTimer' = nextTimer + 1
            /\ isRunning' = TRUE
  /\ UNCHANGED switchFrame

\* CronService.stop: nothing without a task, otherwise the timer is stopped
stop ==
  /\ IF task # Null
       THEN /\ timers' = timers \ {task}
            /\ task' = Null
            /\ isRunning' = FALSE
            /\ UNCHANGED nextTimer
       ELSE UNCHANGED <<isRunning, task, timers, nextTimer>>
  /\ UNCHANGED switchFrame

\* this.processingMessages.has(message.id)
AlreadyProcessingMutant(set, id) == FALSE

AlreadyProcessing(set, id) == id \in set

\* the for loop run from its head up to the next await: messages that are being
\* processed are skipped, the first other one is claimed (claim = its id) and the
\* transport's send operation is called for it; when the group is used up the
\* loop is left (claim = Null) and the next group, if any, is taken up
RECURSIVE LoopFrom(_, _)
LoopFrom(groups, set) ==
  IF Head(groups) = <<>> THEN [groups |-> Tail(groups), claim |-> Null]
  ELSE IF AlreadyProcessing(set, Head(Head(groups)).id)
    THEN LoopFrom(<<Tail(Head(groups))>> \o Tail(groups), set)
  ELSE [groups |-> groups, claim |-> Head(Head(groups)).id]

\* the run continues from the loop head with the given groups and processing set
Continue(r, groups, set) ==
  LET res == LoopFrom(groups, set)
  IN /\ cronGroups' = [cronGroups EXCEPT ![r] = res.groups]
     /\ IF res.claim # Null
          THEN /\ processingMessages' = set \cup {res.claim}
               /\ sendCount' = [sendCount EXCEPT ![res.claim] = @ + 1]
               /\ cronPc' = [cronPc EXCEPT ![r] = "sending"]
          ELSE /\ processingMessages' = set
               /\ UNCHANGED sendCount
               /\ cronPc' = [cronPc EXCEPT ![r] =
                               IF res.groups = <<>> THEN "idle" ELSE "check"]

\* finally { this.processingMessages.delete(message.id) }; err: the dispatch
\* went through the catch block
ReleasedMutant(set, id, err) == IF err THEN set ELSE set \ {id}

Released(set, id, err) == set \ {id}

\* what the loops still have to go through after the dispatch of the current
\* message; err: the dispatch went through the catch block
AfterDispatchMutant(groups, err) == IF err THEN <<<<>>>> ELSE <<Tail(Head(groups))>> \o Tail(groups)

AfterDispatch(groups, err) == <<Tail(Head(groups))>> \o Tail(groups)

\* the dispatch of the current message ends: release it and go on with the loop
Finish(r, err) ==
  Continue(r, AfterDispatch(cronGroups[r], err),
           Released(processingMessages, CurMsg(r).id, err))

\* processUserMessages: a group whose owner's session is not WORKING is skipped,
\* otherwise the loop over its messages starts
CronCheckConnection(r) ==
  /\ cronPc[r] = "check"
  /\ IF checkConnection(CurMsg(r).userId)
       THEN Continue(r, cronGroups[r], processingMessages)
       ELSE /\ cronGroups' = [cronGroups EXCEPT ![r] = Tail(@)]
            /\ cronPc' = [cronPc EXCEPT ![r] =
                            IF Len(cronGroups[r]) > 1 THEN "check" ELSE "idle"]
            /\ UNCHANGED <<processingMessages, sendCount>>
  /\ UNCHANGED <<messages, nextId, nextExt, accepted, whatsAppSession, edit, events>>
  /\ UNCHANGED cronFrame

\* externalId: sentMessage.id || null
ExternalIdOrNull(ext) == IF ext = EmptyId THEN Null ELSE ext

\* sendTextMessage resolved and the row is updated to SENT; the update throws
\* for a row that no longer exists
CronSent(r, ext) ==
  /\ cronPc[r] = "sending"
  /\ nextExt' = IF ext = EmptyId THEN nextExt ELSE nextExt + 1
  /\ accepted' = accepted \cup {CurMsg(r).id}
  /\ UNCHANGED <<whatsAppSession, edit>>
  /\ IF Exists(CurMsg(r).id)
       THEN /\ messages' = Patch(CurMsg(r).id,
                             [status |-> "SENT", sentAt |-> now,
                              externalId |-> ExternalIdOrNull(ext)])
            /\ cronPc' = [cronPc EXCEPT ![r] = "expand"]
       ELSE /\ cronPc' = [cronPc EXCEPT ![r] = "failread"]
            /\ UNCHANGED messages
  /\ UNCHANGED <<nextId, processingMessages, cronGroups, sendCount, events>>
  /\ UNCHANGED cronFrame

\* sendTextMessage resolved and the update to SENT failed in the store: the
\* catch block re-reads the row
CronSentStoreError(r, ext) ==
  /\ cronPc[r] = "sending"
  /\ events < MaxEvents
  /\ events' = events + 1
  /\ nextExt' = IF ext = EmptyId THEN nextExt ELSE nextExt + 1
  /\ accepted' = accepted \cup {CurMsg(r).id}
  /\ UNCHANGED <<whatsAppSession, edit>>
  /\ cronPc' = [cronPc EXCEPT ![r] = "failread"]
  /\ UNCHANGED <<messages, nextId, processingMessages, cronGroups, sendCount>>
  /\ UNCHANGED cronFrame

CronSendFailedMutant(r) ==
  /\ cronPc[r] = "sending"
  /\ events < MaxEvents
  /\ events' = events + 1
  /\ cronPc' = [cronPc EXCEPT ![r] = "expand"]
  /\ UNCHANGED <<messages, nextId, processingMessages, cronGroups, sendCount, nextExt, accepted, whatsAppSession, edit>>
  /\ UNCHANGED cronFrame

\* sendTextMessage was rejected: the catch block re-reads the row
CronSendFailed(r) ==
  /\ cronPc[r] = "sending"
  /\ events < MaxEvents
  /\ events' = events + 1
  /\ cronPc' = [cronPc EXCEPT ![r] = "failread"]
  /\ UNCHANGED <<messages, nextId, processingMessages, cronGroups, sendCount, nextExt, accepted, whatsAppSession, edit>>
  /\ UNCHANGED cronFrame

\* originalMessageId: message.originalMessageId || message.id
RootOfMutant(m) == m.id

RootOf(m) == IF m.originalMessageId # Null THEN m.originalMessageId ELSE m.id

\* the row the Recurrence Expander creates for a sent MONTHLY message
CloneOf(m, id) ==
  NewMessage(id, m.content, "SCHEDULED", NextMonth(m.scheduledAt), m.userId,
             m.contactId, "MONTHLY", RootOf(m), TRUE)

\* after the update to SENT: a MONTHLY message is cloned, any other is deleted
\* (the delete throws for a row that no longer exists)
CronExpand(r) ==
  /\ cronPc[r] = "expand"
  /\ IF CurMsg(r).recurrenceType = "MONTHLY"
       THEN /\ nextId <= MaxMsgs
            /\ messages' = Insert(CloneOf(CurMsg(r), nextId))
            /\ nextId' = nextId + 1
            /\ Finish(r, FALSE)
       ELSE IF Exists(CurMsg(r).id)
         THEN /\ messages' = Remove(CurMsg(r).id)
              /\ UNCHANGED nextId
              /\ Finish(r, FALSE)
         ELSE /\ cronPc' = [cronPc EXCEPT ![r] = "failread"]
              /\ UNCHANGED <<messages, nextId, processingMessages, cronGroups,
                             sendCount>>
  /\ UNCHANGED <<nextExt, accepted, whatsAppSession, edit, events>>
  /\ UNCHANGED cronFrame

\* the create / delete after the update to SENT failed in the store
CronExpandStoreError(r) ==
  /\ cronPc[r] = "expand"
  /\ events < MaxEvents
  /\ events' = events + 1
  /\ cronPc' = [cronPc EXCEPT ![r] = "failread"]
  /\ UNCHANGED <<messages, nextId, processingMessages, cronGroups, sendCount, nextExt, accepted, whatsAppSession, edit>>
  /\ UNCHANGED cronFrame

\* currentMessage?.status === MessageStatus.SCHEDULED
StillScheduled(id) == Exists(id) /\ messages[id].status = "SCHEDULED"

\* catch block: the row's status was re-read; FAILED is written only for a row
\* read as SCHEDULED
CronFailRead(r) ==
  /\ cronPc[r] = "failread"
  /\ IF StillScheduled(CurMsg(r).id)
       THEN /\ cronPc' = [cronPc EXCEPT ![r] = "failwrite"]
            /\ UNCHANGED <<processingMessages, cronGroups, sendCount>>
       ELSE Finish(r, TRUE)
  /\ UNCHANGED <<messages, nextId, nextExt, accepted, whatsAppSession, edit, events>>
  /\ UNCHANGED cronFrame

\* catch block: the row is marked FAILED (an error of this update is swallowed)
CronFailWrite(r) ==
  /\ cronPc[r] = "failwrite"
  /\ messages' = IF Exists(CurMsg(r).id)
                   THEN Patch(CurMsg(r).id, [status |-> "FAILED"])
                   ELSE messages
  /\ Finish(r, TRUE)
  /\ UNCHANGED <<nextId, nextExt, accepted, whatsAppSession, edit, events>>
  /\ UNCHANGED cronFrame

\* catch block: the re-read or the FAILED update failed in the store
CronFailStoreError(r) ==
  /\ cronPc[r] \in {"failread", "failwrite"}
  /\ events < MaxEvents
  /\ events' = events + 1
  /\ Finish(r, TRUE)
  /\ UNCHANGED <<messages, nextId, nextExt, accepted, whatsAppSession, edit>>
  /\ UNCHANGED cronFrame

(* --------------------- manual sends (message controller) -------------- *)
manualFrame == <<now, nextId, session, processingMessages, cronPc, cronGroups,
                 pollList, recentEvents, replyVars, schedVars>>

\* sendMessageNow: the row is looked up; a row that is SENT is refused
SendNowStart(id) ==
  /\ manual.pc = "idle"
  /\ events < MaxEvents
  /\ Exists(id)
  /\ messages[id].status # "SENT"
  /\ manual' = [pc |-> "check", id |-> id, u |-> messages[id].userId]
  /\ events' = events + 1
  /\ UNCHANGED <<messages, bulk, sendCount, nextExt, accepted, whatsAppSession, edit>>
  /\ UNCHANGED manualFrame

\* sendMessageNow: 503 unless the session is WORKING, otherwise call the transport
SendNowCheck ==
  /\ manual.pc = "check"
  /\ IF checkConnection(manual.u)
       THEN /\ manual' = [manual EXCEPT !.pc = "sending"]
            /\ sendCount' = [sendCount EXCEPT ![manual.id] = @ + 1]
       ELSE /\ manual' = Idle
            /\ UNCHANGED sendCount
  /\ UNCHANGED <<messages, bulk, nextExt, accepted, whatsAppSession, edit, events>>
  /\ UNCHANGED manualFrame

\* sendMessageNow: the send resolved; status SENT with externalId: sentMessage.id
\* (an update of a row that no longer exists throws twice and ends in the 500)
SendNowSent(ext) ==
  /\ manual.pc = "sending"
  /\ nextExt' = IF ext = EmptyId THEN nextExt ELSE nextExt + 1
  /\ accepted' = accepted \cup {manual.id}
  /\ UNCHANGED <<whatsAppSession, edit>>
  /\ messages' = IF Exists(manual.id)
                   THEN Patch(manual.id, [status |-> "SENT", sentAt |-> now,
                                          externalId |-> ext])
                   ELSE messages
  /\ manual' = Idle
  /\ UNCHANGED <<bulk, sendCount, events>>
  /\ UNCHANGED manualFrame

\* sendMessageNow: the send was rejected, or the update to SENT failed in the
\* store: the catch block marks the row FAILED without reading it
SendNowFailed ==
  /\ manual.pc = "sending"
  /\ events < MaxEvents
  /\ events' = events + 1
  /\ messages' = IF Exists(manual.id)
                   THEN Patch(manual.id, [status |-> "FAILED"])
                   ELSE messages
  /\ manual' = Idle
  /\ UNCHANGED <<bulk, sendCount, nextExt, accepted, whatsAppSession, edit>>
  /\ UNCHANGED manualFrame

\* createBulkMessages(sendNow): 503 unless the session is WORKING
BulkCheck ==
  /\ bulk.pc = "check"
  /\ IF checkConnection(bulk.u)
       THEN /\ bulk' = [bulk EXCEPT !.pc = "sending"]
            /\ sendCount' = [sendCount EXCEPT ![Head(bulk.queue)] = @ + 1]
       ELSE /\ bulk' = [pc |-> "idle", queue |-> <<>>, u |-> Null]
            /\ UNCHANGED sendCount
  /\ UNCHANGED <<messages, manual, nextExt, accepted, whatsAppSession, edit, events>>
  /\ UNCHANGED manualFrame

\* the loop of createBulkMessages goes on to the next row, calling the transport
BulkAdvance ==
  IF Len(bulk.queue) > 1
    THEN /\ bulk' = [bulk EXCEPT !.queue = Tail(@)]
         /\ sendCount' = [sendCount EXCEPT ![bulk.queue[2]] = @ + 1]
    ELSE /\ bulk' = [pc |-> "idle", queue |-> <<>>, u |-> Null]
         /\ UNCHANGED sendCount

\* createBulkMessages(sendNow): the send of the current row resolved
BulkSent(ext) ==
  /\ bulk.pc = "sending"
  /\ nextExt' = IF ext = EmptyId THEN nextExt ELSE nextExt + 1
  /\ accepted' = accepted \cup {Head(bulk.queue)}
  /\ UNCHANGED <<whatsAppSession, edit>>
  /\ IF Exists(Head(bulk.queue))
       THEN /\ messages' = Patch(Head(bulk.queue),
                             [status |-> "SENT", sentAt |-> now, externalId |-> ext])
            /\ BulkAdvance
       ELSE /\ bulk' = [pc |-> "idle", queue |-> <<>>, u |-> Null]
            /\ UNCHANGED <<messages, sendCount>>
  /\ UNCHANGED <<manual, events>>
  /\ UNCHANGED manualFrame

\* createBulkMessages(sendNow): the send was rejected or the update failed: the
\* catch block marks the row FAILED without reading it
BulkFailed ==
  /\ bulk.pc = "sending"
  /\ events < MaxEvents
  /\ events' = events + 1
  /\ IF Exists(Head(bulk.queue))
       THEN /\ messages' = Patch(Head(bulk.queue), [status |-> "FAILED"])
            /\ BulkAdvance
       ELSE /\ bulk' = [pc |-> "idle", queue |-> <<>>, u |-> Null]
            /\ UNCHANGED <<messages, sendCount>>
  /\ UNCHANGED <<manual, nextExt, accepted, whatsAppSession, edit>>
  /\ UNCHANGED manualFrame

(* ---------------------- webhook ACK correlation ----------------------- *)
\* a raw message id is the sequence of its '_'-separated segments:
\* rawMessageId.includes('_') ? rawMessageId.split('_').pop() : rawMessageId
ExtractMessageIdMutant(raw) == IF Len(raw) > 1 THEN EmptyId ELSE raw[1]

ExtractMessageId(raw) == IF Len(raw) > 1 THEN raw[Len(raw)] ELSE raw[1]

RawId(composite, ext) ==
  IF composite THEN <<"true", "5511999999999@c.us", ext>> ELSE <<ext>>

\* switch (ackNum): the codes that are mapped (default: return)
AckMapped(ackNum) == ackNum \in {1, 2, 3}

\* switch (ackNum): the update data of a mapped code, t being new Date()
AckUpdateData(ackNum, t) ==
  IF ackNum = 1 THEN [status |-> "SENT", sentAt |-> t]
  ELSE IF ackNum = 2 THEN [status |-> "DELIVERED", deliveredAt |-> t]
  ELSE [status |-> "READ", readAt |-> t]

\* prisma.message.findFirst({ where: { externalId } }): a row id, or Null
FindByExternalIdMutant(x) ==
  IF DOMAIN messages = {} THEN Null
  ELSE CHOOSE i \in DOMAIN messages : \A j \in DOMAIN messages : i <= j

FindByExternalId(x) ==
  LET hits == {i \in DOMAIN messages : messages[i].externalId = x}
  IN IF hits = {} THEN Null ELSE CHOOSE i \in hits : \A j \in hits : i <= j

\* the row an ACK with this raw id and code is applied to, or Null: no raw id,
\* an unmapped code and an id that no row stores are dropped
AckTarget(raw, ack) ==
  IF Len(raw) = 1 /\ raw[1] = EmptyId THEN Null
  ELSE IF ~AckMapped(ack) THEN Null
  ELSE FindByExternalId(ExtractMessageId(raw))

\* handleMessageAck: event 'message.ack' with payload { messageId, ack }
handleMessageAck(raw, ack) ==
  IF AckTarget(raw, ack) = Null THEN messages
  ELSE Patch(AckTarget(raw, ack), AckUpdateData(ack, now))

\* handleMessageAny, ACK part: event 'message.any' with payload
\* { id, fromMe: true, ack }
handleMessageAny(raw, ack) ==
  IF AckTarget(raw, ack) = Null THEN messages
  ELSE Patch(AckTarget(raw, ack), AckUpdateData(ack, now))

MAX_EVENTS == 100

TakeMutant(seq, n) == seq

Take(seq, n) == IF Len(seq) <= n THEN seq ELSE SubSeq(seq, 1, n)

\* processEvent: switch (event.event), as far as the Message table goes
processEvent(event) ==
  IF event.event = "message.ack" THEN handleMessageAck(event.id, event.ack)
  ELSE IF event.event = "message.any" /\ event.fromMe /\ event.ack # Null
    THEN handleMessageAny(event.id, event.ack)
  ELSE messages

(* -------------------- webhook confirmation replies -------------------- *)
\* a phone or a sender address is the sequence of its characters; a character
\* is a number: a digit is itself, the others are the codes below
AtCUs == 20    \* the suffix '@c.us'

IsDigit(c) == c \in 0..9

\* the characters of a phone number as a user writes it
LParen == 11
RParen == 12
Space == 13
Dash == 14

DigitsMutant(s) == s

\* s.replace(/\D/g, '')
Digits(s) == SelectSeq(s, IsDigit)

NotSuffix(c) == c # AtCUs

\* fromToUse.replace('@c.us', '')
StripSuffix(s) == SelectSeq(s, NotSuffix)

startsWith55(s) == Len(s) >= 2 /\ s[1] = 5 /\ s[2] = 5

\* phoneNumber.replace(/\D/g, ''), then '55' is put in front of a number of ten
\* or more digits that does not start with it
phoneNumber(from) ==
  LET d == Digits(StripSuffix(from))
  IN IF Len(d) >= 10 /\ ~startsWith55(d) THEN <<5, 5>> \o d ELSE d

\* a.endsWith(b)
endsWith(a, b) == Len(b) <= Len(a) /\ SubSeq(a, Len(a) - Len(b) + 1, Len(a)) = b

\* s.slice(-n)
sliceLast(s, n) == IF Len(s) <= n THEN s ELSE SubSeq(s, Len(s) - n + 1, Len(s))

\* s.replace(/^55/, '')
WithoutDDI(s) == IF startsWith55(s) THEN SubSeq(s, 3, Len(s)) ELSE s

\* the tail of both matching loops: the comparisons without the DDI
MatchWithoutDDI(savedPhone, phone) ==
  \/ WithoutDDI(phone) = WithoutDDI(savedPhone)
  \/ /\ sliceLast(WithoutDDI(phone), 10) = sliceLast(WithoutDDI(savedPhone), 10)
     /\ Len(sliceLast(WithoutDDI(phone), 10)) >= 8

\* handleMessage: strategies 1 to 7
MatchMessage(savedPhone, phone) ==
  \/ savedPhone = phone
  \/ endsWith(phone, savedPhone) /\ Len(savedPhone) >= 8
  \/ endsWith(savedPhone, phone) /\ Len(phone) >= 8
  \/ sliceLast(savedPhone, 10) = sliceLast(phone, 10)
  \/ sliceLast(savedPhone, 8) = sliceLast(phone, 8)
  \/ MatchWithoutDDI(savedPhone, phone)

\* handleMessageAny: the same comparisons without the length conditions on the
\* suffix strategies
MatchAny(savedPhone, phone) ==
  \/ savedPhone = phone
  \/ endsWith(phone, savedPhone)
  \/ endsWith(savedPhone, phone)
  \/ sliceLast(savedPhone, 10) = sliceLast(phone, 10)
  \/ sliceLast(savedPhone, 8) = sliceLast(phone, 8)
  \/ MatchWithoutDDI(savedPhone, phone)

\* a text is the sequence of its words; " " stands for white space at an end
NoText == <<>>

toLowerCase(text) ==
  [k \in 1..Len(text) |->
     IF text[k] = "SIM" THEN "sim" ELSE IF text[k] = "Nao" THEN "nao" ELSE text[k]]

RECURSIVE trimStart(_)
trimStart(text) ==
  IF text # <<>> /\ Head(text) = " " THEN trimStart(Tail(text)) ELSE text

RECURSIVE trimEnd(_)
trimEnd(text) ==
  IF text # <<>> /\ text[Len(text)] = " "
    THEN trimEnd(SubSeq(text, 1, Len(text) - 1)) ELSE text

trim(text) == trimEnd(trimStart(text))

positiveResponses ==
  {<<"sim">>, <<"yes">>, <<"confirmei">>, <<"vou", "ir">>, <<"confirmado">>,
   <<"ok">>, <<"claro">>, <<"com", "certeza">>, <<"presente">>, <<"vou">>,
   <<"estou">>}

negativeResponses ==
  {<<"não">>, <<"nao">>, <<"no">>, <<"não", "vou">>, <<"cancela">>,
   <<"cancelado">>, <<"não", "posso">>, <<"vou", "faltar">>, <<"não", "irei">>,
   <<"nao", "vou">>, <<"nao", "posso">>}

\* new RegExp(`\\b${word}\\b`, 'i').test(text)
Contains(text, word) ==
  \E k \in 1..(Len(text) - Len(word) + 1) : SubSeq(text, k, k + Len(word) - 1) = word

isPositive(text) == \E word \in positiveResponses : Contains(text, word)

isNegative(text) == \E word \in negativeResponses : Contains(text, word)

\* isPositive ? CONFIRMED : DENIED
newStatusMutant(text) == IF isNegative(text) THEN "DENIED" ELSE "CONFIRMED"

newStatus(text) == IF isPositive(text) THEN "CONFIRMED" ELSE "DENIED"

\* extractMessageText: the text of the payload (carried in body)
extractMessageText(event) == event.body

\* WAHAService.generateSessionName: `user_${userId}`
generateSessionName(u) == <<"user", u>>

\* a session name that does not follow the convention
OtherSession == <<"default">>

\* session.startsWith('user_') ? session.replace('user_', '') : null
extractUserIdFromSession(s) == IF Len(s) = 2 /\ s[1] = "user" THEN s[2] ELSE Null

\* findMany({ where: { status: PENDING, userId: userId || undefined } })
Pending(userId) ==
  {c \in DOMAIN confirmations :
     /\ confirmations[c].status = "PENDING"
     /\ userId = Null \/ confirmations[c].userId = userId}

Reverse(seq) == [k \in 1..Len(seq) |-> seq[Len(seq) + 1 - k]]

FallbackTake == 10    \* take: 10

\* the pending confirmations of the session's user, newest first; when there is
\* none, up to ten pending confirmations of any user, in the store's order
FindPending(userId) ==
  IF Pending(userId) # {} THEN Reverse(SortedSeq(Pending(userId)))
  ELSE Take(SortedSeq(Pending(Null)), FallbackTake)

\* confirmation = c; break: of the positions that match, the loop stops at the
\* first one
EarliestMutant(hits) == CHOOSE k \in hits : \A j \in hits : k >= j

Earliest(hits) == CHOOSE k \in hits : \A j \in hits : k <= j

\* the matching loop: the first confirmation of the list whose stored phone
\* matches, or Null
FirstMatchMutant(kind, list, phone) == IF list = <<>> THEN Null ELSE list[1]

FirstMatch(kind, list, phone) ==
  LET saved(k) == Digits(confirmations[list[k]].contactPhone)
      hits == {k \in 1..Len(list) :
                 IF kind = "message" THEN MatchMessage(saved(k), phone)
                 ELSE MatchAny(saved(k), phone)}
  IN IF hits = {} THEN Null
     ELSE list[Earliest(hits)]

\* the text both handlers classify: toLowerCase().trim() of the message text
responseLower(event) == trim(toLowerCase(extractMessageText(event)))

\* fromMe === true
SelfSentMutant(event) == FALSE

SelfSent(event) == event.fromMe

\* the handler goes on to the Confirmation table: an inbound message that has a
\* sender and a text with a keyword
Classified(event) ==
  /\ event.event \in {"message", "message.any"}
  /\ ~SelfSent(event)
  /\ IF event.event = "message" THEN StripSuffix(event.from) # <<>>
     ELSE phoneNumber(event.from) # <<>>
  /\ isPositive(responseLower(event)) \/ isNegative(responseLower(event))

\* the confirmation the handler goes on to update, or Null
ReplyTargetMutant(event) ==
  IF ~Classified(event) THEN Null
  ELSE FirstMatch(event.event, FindPending(extractUserIdFromSession(event.session)),
                  phoneNumber(event.from))

ReplyTarget(event) ==
  LET list == FindPending(extractUserIdFromSession(event.session))
  IN IF ~Classified(event) THEN Null
     ELSE IF Len(list) = 1 THEN list[1]
     ELSE FirstMatch(event.event, list, phoneNumber(event.from))

\* the data of that update: handleMessage stores the lower-case text for a
\* single pending confirmation and message.body for a matched one,
\* handleMessageAny stores the text as it came
ReplyData(event) ==
  LET single == Len(FindPending(extractUserIdFromSession(event.session))) = 1
  IN [status |-> newStatus(responseLower(event)),
      response |-> IF event.event = "message" /\ single THEN responseLower(event)
                   ELSE extractMessageText(event),
      respondedAt |-> now]

\* the request reads or writes the store: only then can a store error reach it
ReachesStore(event) ==
  \/ Classified(event)
  \/ /\ event.event = "message.ack" \/ (event.event = "message.any" /\ event.fromMe)
     /\ ~(Len(event.id) = 1 /\ event.id[1] = EmptyId)
     /\ AckMapped(event.ack)

ackFrame == <<now, nextId, session, processingMessages, cronPc, cronGroups,
              manual, bulk, pollList, sendCount, nextExt, accepted, whatsAppSession, edit, schedVars>>

\* handleWAHAWebhook, up to the confirmation update: the event is put at the head
\* of recentEvents and the oldest one is dropped beyond MAX_EVENTS; then the
\* event is processed. The ACK handlers catch a store error; the reply handlers
\* do not, and handleWAHAWebhook's catch answers 500
handleWAHAWebhook(event, fails) ==
  /\ fails => ReachesStore(event)
  /\ recentEvents' = Take(<<event>> \o recentEvents, MAX_EVENTS)
  /\ messages' = IF fails THEN messages ELSE processEvent(event)
  /\ IF Classified(event) /\ fails
       THEN inflight' = inflight /\ httpRes' = ServerError
     ELSE IF ReplyTarget(event) # Null
       THEN /\ inflight' = Append(inflight, [event |-> event,
                                             id |-> ReplyTarget(event),
                                             data |-> ReplyData(event)])
            /\ httpRes' = httpRes
     ELSE inflight' = inflight /\ httpRes' = Received
  /\ UNCHANGED <<confirmations, nextConf>>
  /\ UNCHANGED ackFrame

\* an event of the ACK kinds, as the transport sends it for a message of ours
AckEvent(kind, raw, ack) ==
  [event |-> kind, session |-> generateSessionName(SoleOwner), id |-> raw,
   ack |-> ack, fromMe |-> TRUE, from |-> <<>>, body |-> NoText, timestamp |-> now]

\* an event that carries a message: text, sender, direction
MessageEvent(kind, s, from, body, fromMe) ==
  [event |-> kind, session |-> s, id |-> <<EmptyId>>, ack |-> Null,
   fromMe |-> fromMe, from |-> from, body |-> body, timestamp |-> now]

\* a webhook request with an ACK event
HandleWAHAWebhook(kind, raw, ack) ==
  /\ events < MaxEvents
  /\ events' = events + 1
  /\ handleWAHAWebhook(AckEvent(kind, raw, ack), FALSE)

\* the first webhook request the service receives, with an ACK event
HandleFirstAck(kind, raw, ack) ==
  /\ recentEvents = <<>>
  /\ UNCHANGED events
  /\ handleWAHAWebhook(AckEvent(kind, raw, ack), FALSE)

\* a webhook request with an ACK event during which the store may be down
HandleAckWebhook(kind, raw, ack, fails) ==
  /\ events < MaxEvents
  /\ events' = events + 1
  /\ handleWAHAWebhook(AckEvent(kind, raw, ack), fails)

\* a webhook request with a message event
HandleMessageWebhook(kind, s, from, body, fromMe, fails) ==
  /\ events < MaxEvents
  /\ events' = events + 1
  /\ handleWAHAWebhook(MessageEvent(kind, s, from, body, fromMe), fails)

\* a webhook request with a message of a contact on the sole owner's session,
\* whose payload also has an id and an ack code
HandleInboundWithAck(kind, from, body, raw, ack) ==
  /\ events < MaxEvents
  /\ events' = events + 1
  /\ handleWAHAWebhook([MessageEvent(kind, generateSessionName(SoleOwner), from, body, FALSE) EXCEPT !.id = raw, !.ack = ack], FALSE)

\* payload.me of a session.status event: the account the session is linked to
MeId == <<5, 5, 1, 1, 9, 0, 0, 0, 0, 1, 1, 1, 1, AtCUs>>
Me == [id |-> MeId, pushName |-> <<"Ana">>]

\* a session.status event; has: the properties its payload carries
StatusEvent(s, has, status) ==
  [event |-> "session.status", session |-> s, payload |-> TRUE, has |-> has,
   status |-> status, me |-> Me, timestamp |-> now]

\* an event whose body has no payload property
EventWithoutPayload(kind, s) ==
  [event |-> kind, session |-> s, payload |-> FALSE, has |-> {}, status |-> "",
   me |-> Me, timestamp |-> now]

\* prisma.whatsAppSession.update: a property that is undefined leaves its column,
\* me?.id?.replace('@c.us', '') || whatsappSession.phoneNumber
SessionUpdateData(row, event) ==
  [status |-> IF "status" \in event.has THEN event.status ELSE row.status,
   phoneNumber |-> IF "me" \in event.has THEN StripSuffix(event.me.id) ELSE row.phoneNumber,
   profileName |-> IF "me" \in event.has THEN event.me.pushName ELSE row.profileName]

\* handleSessionStatus: the row of the session of a user_<id> session name is
\* looked up by sessionId and updated; a store error is caught
handleSessionStatus(event) ==
  LET userId == extractUserIdFromSession(event.session)
  IN IF userId = Null \/ userId \notin DOMAIN whatsAppSession THEN whatsAppSession
     ELSE [whatsAppSession EXCEPT ![userId] = SessionUpdateData(@, event)]

\* a webhook request with a session.status event that has a payload
HandleSessionStatusWebhook(s, has, status) ==
  /\ events < MaxEvents
  /\ events' = events + 1
  /\ recentEvents' = Take(<<StatusEvent(s, has, status)>> \o recentEvents, MAX_EVENTS)
  /\ whatsAppSession' = handleSessionStatus(StatusEvent(s, has, status))
  /\ httpRes' = Received
  /\ UNCHANGED <<confirmations, nextConf, inflight>>
  /\ UNCHANGED <<now, messages, nextId, session, processingMessages, cronPc, cronGroups, manual, bulk, pollList, sendCount, nextExt, accepted, edit, schedVars>>

\* the handlers that read a property of event.payload before anything else
ReadsPayload(kind) == kind \in {"session.status", "message", "message.ack", "message.any"}

\* the answer to a request without payload: a handler that reads a property of
\* undefined throws and the catch of handleWAHAWebhook answers 500
AnswerWithoutPayload(kind) == IF ReadsPayload(kind) THEN ServerError ELSE Received

\* a webhook request whose body has no payload
HandleWebhookWithoutPayload(kind, s) ==
  /\ events < MaxEvents
  /\ events' = events + 1
  /\ recentEvents' = Take(<<EventWithoutPayload(kind, s)>> \o recentEvents, MAX_EVENTS)
  /\ httpRes' = AnswerWithoutPayload(kind)
  /\ UNCHANGED <<confirmations, nextConf, inflight, whatsAppSession>>
  /\ UNCHANGED <<now, messages, nextId, session, processingMessages, cronPc, cronGroups, manual, bulk, pollList, sendCount, nextExt, accepted, edit, schedVars>>

Without(seq, k) == SubSeq(seq, 1, k - 1) \o SubSeq(seq, k + 1, Len(seq))

\* prisma.confirmation.update({ where: { id }, data })
PatchConfirmation(id, data) ==
  [confirmations EXCEPT ![id] =
     [f \in DOMAIN @ |-> IF f \in DOMAIN data THEN data[f] ELSE @[f]]]

replyFrame == <<now, messages, nextId, session, processingMessages, cronPc, cronGroups,
                manual, bulk, pollList, sendCount, nextExt, accepted, whatsAppSession, edit, recentEvents, schedVars>>

\* prisma.confirmation.update of a waiting request is done and the request is
\* answered
ConfirmationUpdated(k) ==
  /\ k \in 1..Len(inflight)
  /\ IF inflight[k].id \in DOMAIN confirmations
       THEN /\ confirmations' = PatchConfirmation(inflight[k].id, inflight[k].data)
            /\ httpRes' = Received
       ELSE confirmations' = confirmations /\ httpRes' = ServerError
  /\ inflight' = Without(inflight, k)
  /\ UNCHANGED <<events, nextConf>>
  /\ UNCHANGED replyFrame

\* prisma.confirmation.update of a waiting request raises
ConfirmationUpdateError(k) ==
  /\ k \in 1..Len(inflight)
  /\ events < MaxEvents
  /\ events' = events + 1
  /\ inflight' = Without(inflight, k)
  /\ httpRes' = ServerError
  /\ UNCHANGED <<confirmations, nextConf>>
  /\ UNCHANGED replyFrame

\* answers of the confirmation endpoints
BadRequest == [status |-> 400, received |-> FALSE, limit |-> Null, events |-> <<>>, total |-> Null]
Updated == [status |-> 200, received |-> FALSE, limit |-> Null, events |-> <<>>, total |-> Null]
NoContent == [status |-> 204, received |-> FALSE, limit |-> Null, events |-> <<>>, total |-> Null]

ValidStatusMutant(status) == status # ""

\* the status a PUT /confirmations/:id request may carry
ValidStatus(status) == status \in {"CONFIRMED", "DENIED"}

\* the data updateConfirmationStatus writes: response || null
ManualData(status, response) == [status |-> status, response |-> response, respondedAt |-> now]

\* PUT /confirmations/:id of the authenticated user u: the row is addressed by
\* id alone, an update of a missing row throws and is answered with 500
updateConfirmationStatus(u, id, status, response) ==
  /\ events < MaxEvents
  /\ events' = events + 1
  /\ IF ~ValidStatus(status)
       THEN confirmations' = confirmations /\ httpRes' = BadRequest
     ELSE IF id \notin DOMAIN confirmations
       THEN confirmations' = confirmations /\ httpRes' = ServerError
     ELSE /\ confirmations' = PatchConfirmation(id, ManualData(status, response))
          /\ httpRes' = Updated
  /\ UNCHANGED <<nextConf, inflight>>
  /\ UNCHANGED replyFrame

\* DELETE /confirmations/:id of the authenticated user u, addressed by id alone
deleteConfirmation(u, id) ==
  /\ events < MaxEvents
  /\ events' = events + 1
  /\ IF id \notin DOMAIN confirmations
       THEN confirmations' = confirmations /\ httpRes' = ServerError
     ELSE /\ confirmations' = [c \in DOMAIN confirmations \ {id} |-> confirmations[c]]
          /\ httpRes' = NoContent
  /\ UNCHANGED <<nextConf, inflight>>
  /\ UNCHANGED replyFrame

\* ConfirmationController.createConfirmation
CreateConfirmation(u, contactPhone) ==
  /\ nextConf <= MaxConfs
  /\ confirmations' = (nextConf :> [id |-> nextConf, userId |-> u,
                                    contactPhone |-> contactPhone,
                                    status |-> "PENDING", response |-> NoText,
                                    respondedAt |-> Null]) @@ confirmations
  /\ nextConf' = nextConf + 1
  /\ UNCHANGED <<events, inflight, httpRes>>
  /\ UNCHANGED replyFrame

\* parseInt(req.query.limit) || 50
DefaultLimit == 50

parseLimit(q) == IF q = Null \/ q = 0 THEN DefaultLimit ELSE q

\* seq.slice(0, n)
sliceFirst(seq, n) ==
  IF n >= 0 THEN Take(seq, n)
  ELSE IF Len(seq) + n <= 0 THEN <<>> ELSE SubSeq(seq, 1, Len(seq) + n)

\* getRecentEvents: GET /webhook/events?limit=q
getRecentEvents(q) ==
  /\ httpRes' = [status |-> 200, received |-> FALSE, limit |-> q,
             events |-> sliceFirst(recentEvents, parseLimit(q)),
             total |-> Len(recentEvents)]
  /\ UNCHANGED <<events, confirmations, nextConf, inflight>>
  /\ UNCHANGED replyFrame

(* --------------------- status poll (checkMessageStatuses) ------------- *)
PollTake == 10        \* take: 10
PollWindowDays == 1   \* sentAt >= now - 24h

PollCandidates ==
  {i \in DOMAIN messages :
     /\ messages[i].status = "SENT"
     /\ messages[i].externalId # Null
     /\ messages[i].sentAt # Null
     /\ messages[i].sentAt >= now - PollWindowDays}

pollFrame == <<now, nextId, session, processingMessages, cronPc, cronGroups,
               manual, bulk, sendCount, nextExt, accepted, whatsAppSession, edit, recentEvents, replyVars, schedVars>>

\* checkMessageStatuses: read the SENT rows to look up
PollStart ==
  /\ pollList = <<>>
  /\ events < MaxEvents
  /\ PollCandidates # {}
  /\ pollList' = Take(SortedSeq(PollCandidates), PollTake)
  /\ events' = events + 1
  /\ UNCHANGED messages
  /\ UNCHANGED pollFrame

\* checkMessageStatuses: getMessageInfo answered for the next row (info = Null:
\* no answer); ack 2 marks it DELIVERED, ack 3 READ, without reading it again
PollStep(info) ==
  /\ pollList # <<>>
  /\ messages' =
       IF ~Exists(Head(pollList)) THEN messages
       ELSE IF info = 2
         THEN Patch(Head(pollList), [status |-> "DELIVERED", deliveredAt |-> now])
       ELSE IF info = 3
         THEN Patch(Head(pollList), [status |-> "READ", readAt |-> now])
       ELSE messages
  /\ pollList' = Tail(pollList)
  /\ UNCHANGED events
  /\ UNCHANGED pollFrame

(* ---------------------------- specification --------------------------- *)
AckCodes == 1..4
EventKinds == {"message.ack", "message.any"}
ExtIds == 0..(nextExt - 1)
SendResults == {EmptyId, nextExt}
ScheduleInputs == {Null, now}


\* one owner, one instant: overlapping ticks, manual sends, transport and store
\* errors
DispatchNext ==
  \/ SessionChange(SoleOwner)
  \/ CreateMessage(SoleOwner, now)
  \/ CreateBulkMessages(SoleOwner, now, FALSE, "MONTHLY")
  \/ \E r \in Runs : CronTick(r)
  \/ \E r \in Runs : CronCheckConnection(r)
  \/ \E r \in Runs : CronSent(r, nextExt)
  \/ \E r \in Runs : CronSendFailed(r)
  \/ \E r \in Runs : CronExpand(r)
  \/ \E r \in Runs : CronExpandStoreError(r)
  \/ \E r \in Runs : CronFailRead(r)
  \/ \E r \in Runs : CronFailWrite(r)
  \/ \E r \in Runs : CronFailStoreError(r)
  \/ \E id \in Ids : SendNowStart(id)
  \/ SendNowCheck
  \/ SendNowSent(nextExt)
  \/ SendNowFailed

\* one owner, months passing: overlapping ticks over a recurrence chain
RecurNext ==
  \/ AdvanceTime
  \/ CreateMessage(SoleOwner, now)
  \/ CreateBulkMessages(SoleOwner, now, FALSE, "MONTHLY")
  \/ \E r \in Runs : CronTick(r)
  \/ \E r \in Runs : CronCheckConnection(r)
  \/ \E r \in Runs, ext \in SendResults : CronSent(r, ext)
  \/ \E r \in Runs : CronSendFailed(r)
  \/ \E r \in Runs : CronExpand(r)
  \/ \E r \in Runs : CronExpandStoreError(r)
  \/ \E r \in Runs : CronFailRead(r)
  \/ \E r \in Runs : CronFailWrite(r)

\* several owners: ticks over the owners' groups while sessions come and go
OwnersNext ==
  \/ \E u \in Users : SessionChange(u)
  \/ \E u \in Users : CreateMessage(u, now)
  \/ \E u \in Users : CreateBulkMessages(u, now, FALSE, "MONTHLY")
  \/ \E r \in Runs : CronTick(r)
  \/ \E r \in Runs : CronCheckConnection(r)
  \/ \E r \in Runs : CronSent(r, nextExt)
  \/ \E r \in Runs : CronSendFailed(r)
  \/ \E r \in Runs : CronExpand(r)
  \/ \E r \in Runs : CronFailRead(r)
  \/ \E r \in Runs : CronFailWrite(r)

\* one owner: manual and bulk sends, the ACK webhooks and the status poll
AckNext ==
  \/ AdvanceTime
  \/ \E at \in ScheduleInputs : CreateMessage(SoleOwner, at)
  \/ CreateBulkMessages(SoleOwner, Null, TRUE, "NONE")
  \/ \E id \in Ids : SendNowStart(id)
  \/ SendNowCheck
  \/ SendNowSent(nextExt)
  \/ SendNowFailed
  \/ BulkCheck
  \/ BulkSent(nextExt)
  \/ BulkFailed
  \/ \E k \in EventKinds, c \in BOOLEAN, e \in ExtIds, a \in AckCodes :
       HandleWAHAWebhook(k, RawId(c, e), a)
  \/ PollStart
  \/ \E info \in {Null, 1, 2, 3} : PollStep(info)

FirstRun == CHOOSE r \in Runs : \A q \in Runs : r <= q

\* the last day of the ProbeYears years that start with EpochYear
ProbeEnd == DaysBeforeYear(EpochYear + ProbeYears) - 1

\* one owner, one MONTHLY message scheduled on any day of those years, and the
\* ticks that send it and its successors once all of them are due
DateNext ==
  \/ nextId = 1 /\ \E t \in 0..ProbeEnd :
                     CreateBulkMessages(SoleOwner, t, FALSE, "MONTHLY")
  \/ CronTick(FirstRun)
  \/ CronCheckConnection(FirstRun)
  \/ CronSent(FirstRun, nextExt)
  \/ CronExpand(FirstRun)

\* the phones of two contacts, the address of the first one as the transport
\* reports it (without the DDI) and the address of a stranger
PhoneA == <<5, 5, 1, 1, 9, 8, 7, 6, 5, 4, 3, 2, 1>>
PhoneB == <<5, 5, 2, 1, 9, 1, 2, 3, 4, 5, 6, 7, 8>>
ContactPhones == {PhoneA, PhoneB}
JidA == <<1, 1, 9, 8, 7, 6, 5, 4, 3, 2, 1, AtCUs>>
JidStranger == <<5, 5, 3, 1, 9, 5, 5, 5, 5, 4, 4, 4, 4, AtCUs>>
Senders == {JidA, JidStranger}
Texts == {<<"SIM", " ">>, <<"nao">>, <<"nao", "vou">>, <<"talvez">>}
Sessions == {generateSessionName(u) : u \in Users} \cup {OtherSession}
MessageKinds == {"message", "message.any"}
LimitInputs == {Null, -2, 0, 1, 150}

\* two owners' confirmations and the replies of contacts, with store errors
ReplyNext ==
  \/ \E u \in Users, p \in ContactPhones : CreateConfirmation(u, p)
  \/ \E k \in MessageKinds, s \in Sessions, f \in Senders, b \in Texts, fails \in BOOLEAN : HandleMessageWebhook(k, s, f, b, FALSE, fails)
  \/ \E k \in MessageKinds, b \in Texts : HandleMessageWebhook(k, generateSessionName(SoleOwner), JidA, b, TRUE, FALSE)
  \/ \E k \in 1..MaxEvents : ConfirmationUpdated(k)
  \/ \E k \in 1..MaxEvents : ConfirmationUpdateError(k)

\* the webhook requests received so far, when the k-th one carries the id k
Requests == IF recentEvents = <<>> THEN 0 ELSE Head(recentEvents).id[1]

\* the k-th webhook request of a row of requests: a reply during which the
\* store is down when k is odd, an ACK when k is even
NumberedRequest ==
  LET k == Requests + 1
      reply == [MessageEvent("message", generateSessionName(SoleOwner), JidA, <<"sim">>, FALSE) EXCEPT !.id = <<k>>]
  IN /\ k <= MaxRequests
     /\ handleWAHAWebhook(IF k % 2 = 1 THEN reply ELSE AckEvent("message.ack", <<k>>, 1), k % 2 = 1)
     /\ UNCHANGED events

\* a row of webhook requests and the inspection of the buffer
BufferNext ==
  \/ NumberedRequest
  \/ \E q \in LimitInputs : getRecentEvents(q)

\* one owner: the dispatcher sends, the transport sometimes returns no id, and
\* ACK webhooks arrive for ids of any kind while the store may be down
CorrelateNext ==
  \/ CreateMessage(SoleOwner, now)
  \/ CreateBulkMessages(SoleOwner, now, FALSE, "MONTHLY")
  \/ CronTick(FirstRun)
  \/ CronCheckConnection(FirstRun)
  \/ \E ext \in SendResults : CronSent(FirstRun, ext)
  \/ CronExpand(FirstRun)
  \/ \E k \in EventKinds, c \in BOOLEAN, e \in 0..nextExt, a \in AckCodes, fails \in BOOLEAN : HandleAckWebhook(k, RawId(c, e), a, fails)

\* one owner: messages sent in bulk, confirmations, and messages of contacts
\* that carry the id of a sent message
InboundNext ==
  \/ \E p \in ContactPhones : CreateConfirmation(SoleOwner, p)
  \/ CreateBulkMessages(SoleOwner, Null, TRUE, "NONE")
  \/ BulkCheck
  \/ BulkSent(nextExt)
  \/ \E k \in MessageKinds, f \in Senders, b \in {<<"talvez">>, <<"nao">>}, e \in ExtIds \ {EmptyId} : HandleInboundWithAck(k, f, b, RawId(FALSE, e), 2)
  \/ \E k \in 1..MaxEvents : ConfirmationUpdated(k)

\* one owner, connected: the scheduler is switched on and off through the toggle
\* route while ticks run, and the due-list query of a tick may raise
TimerNext ==
  \/ start
  \/ stop
  \/ CreateMessage(SoleOwner, now)
  \/ \E r \in Runs : CronTick(r)
  \/ \E r \in Runs : CronTickFailed(r)
  \/ \E r \in Runs : CronCheckConnection(r)
  \/ \E r \in Runs : CronSent(r, nextExt)
  \/ \E r \in Runs : CronExpand(r)

\* one tick over a store that holds due rows of several connected owners, with
\* transport and store errors
BatchNext ==
  \/ CronTick(FirstRun)
  \/ CronCheckConnection(FirstRun)
  \/ CronSent(FirstRun, nextExt)
  \/ CronSentStoreError(FirstRun, nextExt)
  \/ CronSendFailed(FirstRun)
  \/ CronExpand(FirstRun)
  \/ CronExpandStoreError(FirstRun)
  \/ CronFailRead(FirstRun)
  \/ CronFailWrite(FirstRun)
  \/ CronFailStoreError(FirstRun)

\* one owner, connected: every send path, and a transport that answers with or
\* without a message id
SendNext ==
  \/ CreateMessage(SoleOwner, now)
  \/ CreateBulkMessages(SoleOwner, now, FALSE, "MONTHLY")
  \/ CreateBulkMessages(SoleOwner, Null, TRUE, "NONE")
  \/ \E id \in Ids : SendNowStart(id)
  \/ SendNowCheck
  \/ \E ext \in SendResults : SendNowSent(ext)
  \/ BulkCheck
  \/ \E ext \in SendResults : BulkSent(ext)
  \/ CronTick(FirstRun)
  \/ CronCheckConnection(FirstRun)
  \/ \E ext \in SendResults : CronSent(FirstRun, ext)
  \/ CronExpand(FirstRun)

\* one owner, connected, whose store holds Messages that were sent and
\* acknowledged: they are sent again on request, the transport may reject, and
\* an ACK of the transport arrives late
ResendNext ==
  \/ \E id \in Ids : SendNowStart(id)
  \/ SendNowCheck
  \/ SendNowSent(nextExt)
  \/ SendNowFailed
  \/ \E k \in EventKinds, e \in ExtIds \ {EmptyId}, a \in AckCodes : HandleFirstAck(k, RawId(FALSE, e), a)

\* stored phones: as the transport writes the number, another contact's, the
\* last four digits only, no digit at all, and the national format
PhoneShort == <<4, 3, 2, 1>>
PhoneDash == <<Dash>>
PhoneFormatted == <<LParen, 1, 1, RParen, Space, 9, 8, 7, 6, 5, Dash, 4, 3, 2, 1>>
StoredPhones == {PhoneA, PhoneB, PhoneShort, PhoneDash, PhoneFormatted}
JidFull == <<5, 5, 1, 1, 9, 8, 7, 6, 5, 4, 3, 2, 1, AtCUs>>

\* one owner, connected: two confirmations with stored phones of any form and
\* the replies of contacts on both event kinds
MatcherNext ==
  \/ \E p \in StoredPhones : CreateConfirmation(SoleOwner, p)
  \/ \E k \in MessageKinds, f \in {JidFull, JidStranger}, b \in {<<"SIM", " ">>, <<"nao">>} : HandleMessageWebhook(k, generateSessionName(SoleOwner), f, b, FALSE, FALSE)
  \/ \E k \in 1..MaxEvents : ConfirmationUpdated(k)

\* one owner, connected, with sent Messages and a pending Confirmation: webhook
\* requests of every kind whose payload is complete, lacks a property or is
\* missing
PayloadNext ==
  \/ CreateConfirmation(SoleOwner, PhoneA)
  \/ CreateBulkMessages(SoleOwner, Null, TRUE, "NONE")
  \/ BulkCheck
  \/ BulkSent(nextExt)
  \/ \E k \in EventKinds \cup MessageKinds \cup {"session.status", "engine.event"}, s \in {generateSessionName(SoleOwner), OtherSession} : HandleWebhookWithoutPayload(k, s)
  \/ \E s \in {generateSessionName(SoleOwner), OtherSession}, has \in SUBSET {"status", "me"}, st \in {"WORKING", "STOPPED"} : HandleSessionStatusWebhook(s, has, st)
  \/ \E k \in EventKinds, e \in ExtIds, a \in {Null, 2} : HandleWAHAWebhook(k, RawId(FALSE, e), a)
  \/ \E k \in MessageKinds : HandleMessageWebhook(k, generateSessionName(SoleOwner), JidA, <<"nao">>, FALSE, FALSE)
  \/ \E k \in 1..MaxEvents : ConfirmationUpdated(k)

\* two users with confirmations: inbound replies next to the confirmation
\* endpoints of either user
ManageNext ==
  \/ \E u \in Users : CreateConfirmation(u, PhoneA)
  \/ \E k \in MessageKinds, u \in Users, b \in {<<"SIM", " ">>, <<"nao">>, <<"talvez">>} : HandleMessageWebhook(k, generateSessionName(u), JidA, b, FALSE, FALSE)
  \/ \E k \in 1..MaxEvents : ConfirmationUpdated(k)
  \/ \E u \in Users, id \in 1..MaxConfs, st \in {"CONFIRMED", "DENIED", "PENDING", ""}, r \in {NoText, <<"ok">>} : updateConfirmationStatus(u, id, st, r)
  \/ \E u \in Users, id \in 1..MaxConfs : deleteConfirmation(u, id)

\* the scheduler alone over a store of due rows, sessions coming and going,
\* transport and store faults
RetryNext ==
  \/ \E u \in Users : SessionChange(u)
  \/ CronTick(FirstRun)
  \/ CronCheckConnection(FirstRun)
  \/ CronSent(FirstRun, nextExt)
  \/ CronSentStoreError(FirstRun, nextExt)
  \/ CronSendFailed(FirstRun)
  \/ CronExpand(FirstRun)
  \/ CronExpandStoreError(FirstRun)
  \/ CronFailRead(FirstRun)
  \/ CronFailWrite(FirstRun)
  \/ CronFailStoreError(FirstRun)

NotFound == [status |-> 404, received |-> FALSE, limit |-> Null, events |-> <<>>, total |-> Null]

\* the text an edit request carries
EditedContent == NumUsers + 1

\* the status check of updateMessage on the row it read
Editable(status) == status # "SENT"

EditScheduledAtMutant(given, existing) == given

\* scheduledAt ? new Date(scheduledAt) : existingMessage.scheduledAt
EditScheduledAt(given, existing) == IF given # Null THEN given ELSE existing

\* POST /messages/reminder: scheduledAt and reminderDays (1 or 2) are required;
\* one Scheduled row, due reminderDays before the event
createMessageWithReminder(u, scheduledAt, reminderDays) ==
  /\ nextId <= MaxMsgs
  /\ IF scheduledAt = Null \/ reminderDays \notin {1, 2}
       THEN UNCHANGED <<messages, nextId>>
       ELSE /\ messages' = Insert(NewMessage(nextId, ContentOf(u), "SCHEDULED", scheduledAt - reminderDays, u, ContactOf(u), "NONE", Null, FALSE))
            /\ nextId' = nextId + 1
  /\ UNCHANGED <<now, session, processingMessages, cronPc, cronGroups, manual, bulk, pollList, sendCount, nextExt, accepted, whatsAppSession, edit, events, recentEvents, replyVars, schedVars>>

\* the data of updateMessage's write: content unless the body had none,
\* scheduledAt of the body or else that of the row as it was read
EditData(e) ==
  IF e.content = Null THEN [scheduledAt |-> e.scheduledAt]
  ELSE [content |-> e.content, scheduledAt |-> e.scheduledAt]

editFrame == <<now, nextId, session, processingMessages, cronPc, cronGroups, manual, bulk, pollList, sendCount, nextExt, accepted, whatsAppSession, recentEvents, confirmations, nextConf, inflight, schedVars>>

\* PUT /messages/:id of user u up to its write: findFirst by id and owner, 404
\* for no row, 400 for a row read as SENT
updateMessageRead(u, id, content, scheduledAt) ==
  /\ edit.pc = "idle"
  /\ events < MaxEvents
  /\ events' = events + 1
  /\ IF ~Exists(id) \/ messages[id].userId # u
       THEN edit' = edit /\ httpRes' = NotFound
     ELSE IF ~Editable(messages[id].status)
       THEN edit' = edit /\ httpRes' = BadRequest
     ELSE /\ edit' = [pc |-> "write", id |-> id, content |-> content,
                      scheduledAt |-> EditScheduledAt(scheduledAt, messages[id].scheduledAt)]
          /\ httpRes' = httpRes
  /\ UNCHANGED messages
  /\ UNCHANGED editFrame

\* the write of updateMessage: update by id, which throws for a row that is gone
updateMessageWrite ==
  /\ edit.pc = "write"
  /\ IF Exists(edit.id)
       THEN messages' = Patch(edit.id, EditData(edit)) /\ httpRes' = Updated
       ELSE messages' = messages /\ httpRes' = ServerError
  /\ edit' = NoEdit
  /\ UNCHANGED events
  /\ UNCHANGED editFrame

\* one connected owner: authoring, the scheduler with one run, delivery ACKs and
\* edit requests
EditNext ==
  \/ \E t \in {Null, now} : CreateMessage(SoleOwner, t)
  \/ CreateBulkMessages(SoleOwner, now, FALSE, "MONTHLY")
  \/ CronTick(FirstRun)
  \/ CronCheckConnection(FirstRun)
  \/ CronSent(FirstRun, nextExt)
  \/ CronSendFailed(FirstRun)
  \/ CronExpand(FirstRun)
  \/ CronFailRead(FirstRun)
  \/ CronFailWrite(FirstRun)
  \/ \E e \in ExtIds, a \in {2, 3} : HandleAckWebhook("message.ack", RawId(FALSE, e), a, FALSE)
  \/ \E u \in Users, id \in Ids, c \in {Null, EditedContent}, t \in {Null, now + ClockStep} : updateMessageRead(u, id, c, t)
  \/ updateMessageWrite

\* one connected owner: every authoring operation, edits, and the scheduler with
\* one run
AuthorNext ==
  \/ \E t \in {Null, now} : CreateMessage(SoleOwner, t)
  \/ \E t \in {Null, now}, rec \in {"NONE", "MONTHLY"} : CreateBulkMessages(SoleOwner, t, FALSE, rec)
  \/ \E t \in {Null, now}, days \in 0..2 : createMessageWithReminder(SoleOwner, t, days)
  \/ \E id \in Ids, c \in {Null, EditedContent}, t \in {Null, now + ClockStep} : updateMessageRead(SoleOwner, id, c, t)
  \/ updateMessageWrite
  \/ CronTick(FirstRun)
  \/ CronCheckConnection(FirstRun)
  \/ CronSent(FirstRun, nextExt)
  \/ CronExpand(FirstRun)

\* two overlapping runs and manual sends over due rows of either recurrence, with
\* transport rejections and store faults
ExpandNext ==
  \/ \E r \in Runs : CronTick(r)
  \/ \E r \in Runs : CronCheckConnection(r)
  \/ \E r \in Runs : CronSent(r, nextExt)
  \/ \E r \in Runs : CronSentStoreError(r, nextExt)
  \/ \E r \in Runs : CronSendFailed(r)
  \/ \E r \in Runs : CronExpand(r)
  \/ \E r \in Runs : CronExpandStoreError(r)
  \/ \E r \in Runs : CronFailRead(r)
  \/ \E r \in Runs : CronFailWrite(r)
  \/ \E r \in Runs : CronFailStoreError(r)
  \/ \E id \in Ids : SendNowStart(id)
  \/ SendNowCheck
  \/ SendNowSent(nextExt)
  \/ SendNowFailed

Next == DispatchNext \/ RecurNext \/ OwnersNext \/ AckNext \/ DateNext \/ ReplyNext \/ BufferNext \/ CorrelateNext \/ InboundNext \/ TimerNext \/ BatchNext \/ SendNext \/ ResendNext \/ MatcherNext \/ PayloadNext \/ ManageNext \/ RetryNext \/ ExpandNext \/ EditNext \/ AuthorNext

Spec == Init /\ [][Next]_vars

\* only the sole owner's session is ever connected
OneOwnerInit == Init /\ \A u \in Users \ {SoleOwner} : session[u] = "STOPPED"

\* the sole owner's session stays connected
ConnectedInit == OneOwnerInit /\ session[SoleOwner] = "WORKING"

DispatchSpec == OneOwnerInit /\ [][DispatchNext]_vars

RecurSpec == ConnectedInit /\ [][RecurNext]_vars

OwnersSpec == Init /\ [][OwnersNext]_vars

AckSpec == OneOwnerInit /\ [][AckNext]_vars

DateInit ==
  /\ Boot(ProbeEnd)
  /\ \A u \in Users : session[u] = IF u = SoleOwner THEN "WORKING" ELSE "STOPPED"

DateSpec == DateInit /\ [][DateNext]_vars

ReplySpec == ConnectedInit /\ [][ReplyNext]_vars

BufferSpec == ConnectedInit /\ [][BufferNext]_vars

CorrelateSpec == ConnectedInit /\ [][CorrelateNext]_vars

InboundSpec == ConnectedInit /\ [][InboundNext]_vars

TimerSpec == ConnectedInit /\ [][TimerNext]_vars

\* every owner connected, MaxMsgs due rows in the store, each of any owner
BatchInit ==
  /\ \E owner \in [Ids -> Users] :
       BootWith(StartDay, [i \in Ids |-> NewMessage(i, ContentOf(owner[i]), "SCHEDULED", StartDay, owner[i], ContactOf(owner[i]), "NONE", Null, FALSE)])
  /\ \A u \in Users : session[u] = "WORKING"

BatchSpec == BatchInit /\ [][BatchNext]_vars

SendSpec == ConnectedInit /\ [][SendNext]_vars

\* a row that was sent with transport id ext and then acknowledged with status st
Acknowledged(i, ext, st) ==
  [NewMessage(i, ContentOf(SoleOwner), st, Null, SoleOwner, ContactOf(SoleOwner), "NONE", Null, FALSE) EXCEPT !.externalId = ext, !.sentAt = StartDay, !.deliveredAt = StartDay, !.readAt = IF st = "READ" THEN StartDay ELSE Null]

\* the sole owner connected, MaxMsgs rows in the store that were sent and then
\* acknowledged as DELIVERED or READ
ResendInit ==
  /\ \E st \in [Ids -> {"DELIVERED", "READ"}] : BootWith(StartDay, [i \in Ids |-> Acknowledged(i, i, st[i])])
  /\ \A u \in Users : session[u] = IF u = SoleOwner THEN "WORKING" ELSE "STOPPED"

ResendSpec == ResendInit /\ [][ResendNext]_vars

MatcherSpec == ConnectedInit /\ [][MatcherNext]_vars

PayloadSpec == ConnectedInit /\ [][PayloadNext]_vars

ManageSpec == Init /\ [][ManageNext]_vars

\* the rows the store holds when the scheduler comes up: all but the last id, so
\* that the clone of the one MONTHLY row has an id
RetryIds == 1..(MaxMsgs - 1)

\* due Scheduled rows of any owners, the first of them of either recurrence, the
\* sessions in any state
RetryInit ==
  \E owner \in [RetryIds -> Users], rec \in {"NONE", "MONTHLY"} :
    BootWith(StartDay, [i \in RetryIds |-> NewMessage(i, ContentOf(owner[i]), "SCHEDULED", StartDay, owner[i], ContactOf(owner[i]), IF i = 1 THEN rec ELSE "NONE", Null, FALSE)])

\* the timer keeps firing and every awaited call of a run returns: the session
\* check, the transport send with one of its outcomes, the store calls
RetryFairness ==
  /\ WF_vars(CronTick(FirstRun))
  /\ WF_vars(CronCheckConnection(FirstRun))
  /\ WF_vars(CronSent(FirstRun, nextExt) \/ CronSentStoreError(FirstRun, nextExt) \/ CronSendFailed(FirstRun))
  /\ WF_vars(CronExpand(FirstRun) \/ CronExpandStoreError(FirstRun))
  /\ WF_vars(CronFailRead(FirstRun) \/ CronFailStoreError(FirstRun))
  /\ WF_vars(CronFailWrite(FirstRun) \/ CronFailStoreError(FirstRun))

RetrySpec == RetryInit /\ [][RetryNext]_vars /\ RetryFairness

\* due Scheduled rows of the one connected owner, each of either recurrence
ExpandInit ==
  /\ \E rec \in [RetryIds -> {"NONE", "MONTHLY"}] :
       BootWith(StartDay, [i \in RetryIds |-> NewMessage(i, ContentOf(SoleOwner), "SCHEDULED", StartDay, SoleOwner, ContactOf(SoleOwner), rec[i], Null, FALSE)])
  /\ \A u \in Users : session[u] = IF u = SoleOwner THEN "WORKING" ELSE "STOPPED"

ExpandSpec == ExpandInit /\ [][ExpandNext]_vars

EditSpec == ConnectedInit /\ [][EditNext]_vars

AuthorSpec == ConnectedInit /\ [][AuthorNext]_vars

(* ------------------------------ properties ---------------------------- *)
\* the statuses of a message that was handed over, in their order
Reached(status) == status \in {"SENT", "DELIVERED", "READ"}
Rank(status) ==
  IF status = "SENT" THEN 1 ELSE IF status = "DELIVERED" THEN 2
  ELSE IF status = "READ" THEN 3 ELSE 0

\* C1: no operation moves a message from Sent, Delivered or Read to a status
\* earlier in the order Pending/Scheduled -> Sent -> Delivered -> Read, or into
\* Failed.
C1_StatusNeverGoesBack ==
  [][\A i \in (DOMAIN messages) \cap (DOMAIN messages') :
       Reached(messages[i].status) =>
         /\ Reached(messages'[i].status)
         /\ Rank(messages'[i].status) >= Rank(messages[i].status)]_vars

\* C2: every message is handed to the transport's send operation at most once,
\* over all interleavings of ticks and manual sends.
C2_SentAtMostOnce == \A i \in Ids : sendCount[i] <= 1

C4_FailurePathKeepsAdvanced ==
  [][\A r \in Runs :
       (cronPc[r] \in {"failread", "failwrite"} /\ cronPc'[r] # cronPc[r]) =>
         \A i \in (DOMAIN messages) \cap (DOMAIN messages') :
           Reached(messages[i].status) => messages'[i].status # "FAILED"]_vars

\* C5: the processing set holds exactly the ids of the dispatches in progress:
\* every id is removed when its dispatch ends, on every exit path, and the set is
\* empty whenever no dispatch is in progress.
C5_ClaimsReleased ==
  processingMessages = {CurMsg(r).id : r \in {q \in Runs : InDispatch(q)}}

\* a dispatch went through the catch block and marked its message Failed (the one
\* external event was its transport or store error), every run is over and the
\* processing set is empty
C5_ReleasedAfterFailure ==
  /\ \A r \in Runs : cronPc[r] = "idle"
  /\ processingMessages = {}
  /\ events = 1
  /\ manual.pc = "idle"
  /\ \E i \in DOMAIN messages : messages[i].status = "FAILED" /\ sendCount[i] = 1

\* the webhook request handled in this step re-delivers the event received last
\* before it, and the row it matches still has the status and the timestamp the
\* first delivery gave it
Redelivered ==
  /\ recentEvents # <<>>
  /\ recentEvents' # recentEvents
  /\ Head(recentEvents').event = Head(recentEvents).event
  /\ Head(recentEvents').ack = Head(recentEvents).ack
  /\ Len(Head(recentEvents').id) = Len(Head(recentEvents).id)
  /\ Head(recentEvents').id = Head(recentEvents).id
  /\ AckTarget(Head(recentEvents).id, Head(recentEvents).ack) # Null
  /\ LET row == messages[AckTarget(Head(recentEvents).id, Head(recentEvents).ack)]
         ack == Head(recentEvents).ack
     IN /\ Rank(row.status) = ack
        /\ Head(recentEvents).timestamp =
             (IF ack = 1 THEN row.sentAt ELSE IF ack = 2 THEN row.deliveredAt
              ELSE row.readAt)

\* C6: an ACK event that is applied a second time leaves every message as the
\* first application left it, status and timestamps.
C6_AckIdempotent == [][Redelivered => messages' = messages]_vars

\* the webhook request handled in this step carries an ACK for a row whose status
\* is the one the code maps to, or a later one
StaleAck ==
  /\ recentEvents' # recentEvents
  /\ AckTarget(Head(recentEvents').id, Head(recentEvents').ack) # Null
  /\ LET row == messages[AckTarget(Head(recentEvents').id, Head(recentEvents').ack)]
     IN Reached(row.status) /\ Rank(row.status) >= Head(recentEvents').ack

\* C7: an ACK whose code maps to a status the message has already reached or
\* passed changes nothing.
C7_StaleAckIsNoOp == [][StaleAck => messages' = messages]_vars

\* the run handles the group at the head of its due-list in this step
HandlesGroup(r) ==
  /\ cronPc[r] = "check"
  /\ <<cronPc[r], cronGroups[r]>>' # <<cronPc[r], cronGroups[r]>>

\* C8: when a tick handles the group of an owner whose session is not WORKING,
\* no send is made, no message is claimed, every row is unchanged and the run
\* goes on to the next owner's group.
C8_NotReadyGroupSkipped ==
  [][\A r \in Runs :
       (HandlesGroup(r) /\ session[CurMsg(r).userId] # "WORKING") =>
         /\ messages' = messages
         /\ sendCount' = sendCount
         /\ processingMessages' = processingMessages
         /\ cronGroups'[r] = Tail(cronGroups[r])
         /\ cronPc'[r] \in {"check", "idle"}]_vars

\* a run is sending the message of a connected owner after it passed the group of
\* two due messages of an owner whose session was never connected: neither of the
\* two was sent, both are still Scheduled
C8_GroupOfTwoSkipped ==
  \E r \in Runs, i, j \in DOMAIN messages :
    /\ cronPc[r] = "sending"
    /\ i < j /\ j < CurMsg(r).id
    /\ messages[i].userId = messages[j].userId
    /\ messages[i].userId # CurMsg(r).userId
    /\ session[messages[i].userId] = "STOPPED"
    /\ events = 0
    /\ StillScheduled(i) /\ StillScheduled(j)
    /\ sendCount[i] = 0 /\ sendCount[j] = 0

\* the run ends the dispatch of a MONTHLY message it has marked Sent, without an
\* error
Expands(r) ==
  /\ cronPc[r] = "expand"
  /\ CurMsg(r).recurrenceType = "MONTHLY"
  /\ cronPc'[r] \notin {"expand", "failread"}

\* every clone names a root: an earlier id whose row, while it exists, is no clone
ChainRoots ==
  \A i \in DOMAIN messages :
    messages[i].isRecurringClone =>
      /\ messages[i].originalMessageId \in 1..(i - 1)
      /\ Exists(messages[i].originalMessageId) =>
           ~messages[messages[i].originalMessageId].isRecurringClone

MonthAfter(t) == (getMonth(t) + 1) % 12
YearOfMonthAfter(t) == getFullYear(t) + ((getMonth(t) + 1) \div 12)

C11_SentThenDeleted ==
  [][\A r \in Runs :
       /\ (cronPc[r] = "sending" /\ cronPc'[r] = "expand") =>
            /\ messages'[CurMsg(r).id].status = "SENT"
            /\ messages'[CurMsg(r).id].sentAt = now
            /\ messages'[CurMsg(r).id].externalId =
                 (IF nextExt' = nextExt THEN Null ELSE nextExt)
       /\ (cronPc[r] = "expand" /\ cronPc'[r] \notin {"expand", "failread"}) =>
            IF CurMsg(r).recurrenceType = "MONTHLY"
              THEN (DOMAIN messages) \subseteq (DOMAIN messages')
              ELSE /\ Exists(CurMsg(r).id)
                   /\ DOMAIN messages' = (DOMAIN messages) \ {CurMsg(r).id}
       /\ \A i \in (DOMAIN messages) \ (DOMAIN messages') :
            messages[i].recurrenceType # "MONTHLY"]_vars

\* a message was sent once, its record is gone and every run is over, while a
\* MONTHLY message that was sent is still there
C11_SentRecordGone ==
  /\ \A r \in Runs : cronPc[r] = "idle"
  /\ \E i \in 1..(nextId - 1) : ~Exists(i) /\ sendCount[i] = 1
  /\ \E j \in DOMAIN messages :
       messages[j].recurrenceType = "MONTHLY" /\ messages[j].status = "SENT"


\* C12: every webhook request is answered 200 { received: true }, whatever the
\* processing of its event did, a store error included: no response is a 500.
C12_AlwaysAcknowledged == httpRes.status # 500


Min(a, b) == IF a <= b THEN a ELSE b
Max(a, b) == IF a >= b THEN a ELSE b

\* the step is an answer of the inspection endpoint
Inspected == httpRes' # httpRes /\ httpRes'.status = 200 /\ ~httpRes'.received

\* C13: after n webhook requests, the k-th of which carries the id k, the buffer
\* holds the events n, n-1, ... down to the min(n, MAX_EVENTS)-th newest, also the
\* events whose processing failed (answered 500); the inspection endpoint leaves
\* the buffer as it is and returns its length and its first `limit` events, where
\* an absent limit and limit 0 stand for 50 and a negative limit -m stands for
\* all events but the last m.
C13_BufferAndInspection ==
  [][/\ Len(recentEvents') = Min(Requests', MAX_EVENTS)
     /\ \A k \in 1..Len(recentEvents') : recentEvents'[k].id = <<Requests' - k + 1>>
     /\ (recentEvents' # recentEvents /\ Requests' % 2 = 1) => httpRes' = ServerError
     /\ Inspected =>
          LET q == httpRes'.limit
              n == IF q = Null \/ q = 0 THEN 50 ELSE q
              len == IF n >= 0 THEN Min(n, Len(recentEvents))
                     ELSE Max(Len(recentEvents) + n, 0)
          IN /\ recentEvents' = recentEvents
             /\ httpRes'.total = Len(recentEvents)
             /\ httpRes'.events = SubSeq(recentEvents, 1, len)]_vars

\* C13 as stated: the inspection endpoint returns the first `limit` events.
C13_FirstLimitEvents ==
  [][(Inspected /\ httpRes'.limit # Null) =>
       httpRes'.events = SubSeq(recentEvents, 1, Min(httpRes'.limit, Len(recentEvents)))]_vars

\* more than MAX_EVENTS requests were received, the last of them failed, and the
\* buffer was inspected with limit 0
C13_FullBufferInspected ==
  /\ Requests > MAX_EVENTS
  /\ Requests % 2 = 1
  /\ Len(recentEvents) = MAX_EVENTS
  /\ httpRes.limit = 0
  /\ httpRes.total = MAX_EVENTS
  /\ Len(httpRes.events) = 50


\* the step is the arrival of a webhook request
Arrives == recentEvents' # recentEvents

\* the user a session name of the form user_<id> encodes, or Null
OwnerOf(e) == IF Len(e.session) = 2 THEN e.session[2] ELSE Null

\* the pending confirmations of a user
PendingOfOwner(u) ==
  {c \in DOMAIN confirmations :
     confirmations[c].userId = u /\ confirmations[c].status = "PENDING"}

\* the event is a reply of a contact whose text has a keyword
ClassifiedReply(e) ==
  /\ ~e.fromMe
  /\ isPositive(trim(toLowerCase(e.body))) \/ isNegative(trim(toLowerCase(e.body)))

\* the event is such a reply on the session of a user with exactly one pending
\* confirmation, and the store is up
SinglePendingReply(e) ==
  /\ OwnerOf(e) # Null
  /\ ClassifiedReply(e)
  /\ Cardinality(PendingOfOwner(OwnerOf(e))) = 1
  /\ httpRes' # ServerError

\* the step is the completion of a waiting confirmation update
Completes(k) ==
  /\ k \in 1..Len(inflight)
  /\ Len(inflight') < Len(inflight)
  /\ httpRes' = Received
  /\ confirmations' =
       [confirmations EXCEPT ![inflight[k].id] =
          [@ EXCEPT !.status = inflight[k].data.status,
                    !.response = inflight[k].data.response,
                    !.respondedAt = inflight[k].data.respondedAt]]

\* C14: a classified reply on the session of a user with exactly one pending
\* confirmation goes on to update that confirmation, whatever the sender's phone,
\* to Confirmed for a text with an affirmative keyword and to Denied otherwise; the
\* response stored is the text in lower case without surrounding white space on
\* the message path and the text as it came on the message.any path; the update
\* that completes writes exactly these values.
C14_SinglePendingResolved ==
  [][/\ (Arrives /\ SinglePendingReply(Head(recentEvents'))) =>
          LET e == Head(recentEvents')
              text == trim(toLowerCase(e.body))
          IN \E c \in PendingOfOwner(OwnerOf(e)) :
               inflight' = Append(inflight,
                 [event |-> e, id |-> c,
                  data |-> [status |-> IF isPositive(text) THEN "CONFIRMED" ELSE "DENIED",
                            response |-> IF e.event = "message" THEN text ELSE e.body,
                            respondedAt |-> now]])
     /\ (Len(inflight') < Len(inflight) /\ httpRes' = Received) =>
          \E k \in 1..Len(inflight) : Completes(k)]_vars

\* C14 as stated: the response that is going to be stored is the reply text.
C14_ReplyTextStored ==
  [][(Arrives /\ SinglePendingReply(Head(recentEvents'))) =>
       /\ Len(inflight') = Len(inflight) + 1
       /\ inflight'[Len(inflight')].data.response = Head(recentEvents').body]_vars

\* the only confirmation there is, for the phone of contact A, was confirmed by
\* the reply "SIM " that a stranger sent on the message path
C14_StrangerConfirmsTheOnlyOne ==
  /\ nextConf = 2
  /\ confirmations[1].contactPhone = PhoneA
  /\ confirmations[1].status = "CONFIRMED"
  /\ confirmations[1].response = <<"sim">>
  /\ inflight = <<>>
  /\ Len(recentEvents) = 1
  /\ recentEvents[1].event = "message"
  /\ recentEvents[1].from = JidStranger
  /\ recentEvents[1].body = <<"SIM", " ">>


\* the verdict the claim gives a text: Confirmed when it has an affirmative and a
\* negative keyword, Denied when it has negative keywords only
VerdictIs(text, status) ==
  LET t == trim(toLowerCase(text))
  IN /\ (isPositive(t) /\ isNegative(t)) => status = "CONFIRMED"
     /\ (isNegative(t) /\ ~isPositive(t)) => status = "DENIED"

\* C15: a reply with an affirmative and a negative keyword resolves to Confirmed,
\* never to Denied, and a reply with negative keywords only resolves to Denied:
\* in every update that is waiting and in every confirmation that was resolved.
C15_AffirmativeFirst ==
  /\ \A k \in 1..Len(inflight) :
       VerdictIs(inflight[k].event.body, inflight[k].data.status)
  /\ \A c \in DOMAIN confirmations :
       confirmations[c].status # "PENDING" =>
         VerdictIs(confirmations[c].response, confirmations[c].status)

\* "nao vou" has confirmed one confirmation and "nao" has denied another
C15_BothKeywordsConfirmed ==
  \E c, d \in DOMAIN confirmations :
    /\ confirmations[c].status = "CONFIRMED"
    /\ confirmations[c].response = <<"nao", "vou">>
    /\ confirmations[d].status = "DENIED"
    /\ confirmations[d].response = <<"nao">>


\* no strategy of either handler matches the sender of e with the phone of c
NoStrategyMatches(e, c) ==
  /\ ~MatchMessage(Digits(confirmations[c].contactPhone), phoneNumber(e.from))
  /\ ~MatchAny(Digits(confirmations[c].contactPhone), phoneNumber(e.from))

\* e is a message of a contact without a keyword, or one with a keyword on the
\* session of a user who has two or more pending confirmations, none of which
\* matches the sender
WithoutEffect(e) ==
  /\ e.event \in MessageKinds
  /\ ~e.fromMe
  /\ \/ ~ClassifiedReply(e)
     \/ /\ OwnerOf(e) # Null
        /\ Cardinality(PendingOfOwner(OwnerOf(e))) >= 2
        /\ \A c \in PendingOfOwner(OwnerOf(e)) : NoStrategyMatches(e, c)

\* C16: an inbound message without a keyword, and one with a keyword for which no
\* pending confirmation matches among two or more, changes no Confirmation and no
\* Message and starts no update.
C16_NoMatchNoEffect ==
  [][(Arrives /\ WithoutEffect(Head(recentEvents'))) =>
       /\ confirmations' = confirmations
       /\ messages' = messages
       /\ inflight' = inflight]_vars

\* with a sent message and two pending confirmations, "talvez" and then a
\* stranger's "nao" arrived, both with the id of the sent message and ack 2, and
\* all rows are as they were
C16_StrangerAmongTwoPending ==
  /\ Len(recentEvents) = 2
  /\ recentEvents[2].body = <<"talvez">>
  /\ recentEvents[1].body = <<"nao">>
  /\ recentEvents[1].from = JidStranger
  /\ recentEvents[1].event = "message.any"
  /\ recentEvents[1].ack = 2
  /\ nextConf = 3
  /\ \A c \in DOMAIN confirmations : confirmations[c].status = "PENDING"
  /\ confirmations[1].contactPhone # confirmations[2].contactPhone
  /\ inflight = <<>>
  /\ \E i \in DOMAIN messages :
       /\ messages[i].status = "SENT"
       /\ <<messages[i].externalId>> = recentEvents[1].id


\* C17: an event whose payload has fromMe = true changes no Confirmation and
\* starts no confirmation update, as 'message' and as 'message.any': every update
\* that is waiting comes from an inbound event.
C17_SelfSentNeverResolves ==
  [][/\ (Arrives /\ Head(recentEvents').fromMe) =>
          confirmations' = confirmations /\ inflight' = inflight
     /\ \A k \in 1..Len(inflight') : ~inflight'[k].event.fromMe]_vars

\* the owner's only confirmation is still pending after a self-sent "SIM " has
\* arrived on each path
C17_SelfSentYesIgnored ==
  /\ nextConf = 2
  /\ confirmations[1].userId = SoleOwner
  /\ confirmations[1].status = "PENDING"
  /\ inflight = <<>>
  /\ Len(recentEvents) = 2
  /\ \A k \in 1..2 : recentEvents[k].fromMe /\ recentEvents[k].body = <<"SIM", " ">>
  /\ recentEvents[1].event = "message"
  /\ recentEvents[2].event = "message.any"


\* C18: a confirmation update is only ever started by a reply on a session named
\* user_<ownerId>, and only for a confirmation of that owner.
C18_OnlyTheOwnersConfirmation ==
  \A k \in 1..Len(inflight) :
    /\ OwnerOf(inflight[k].event) # Null
    /\ confirmations[inflight[k].id].userId = OwnerOf(inflight[k].event)


\* C19: an ACK that finds its message sets status SENT for code 1, and sentAt
\* only when it is unset, DELIVERED and deliveredAt for code 2, READ and readAt
\* for code 3; an ACK with any other code changes no Message.
C19_AckCodeMapping ==
  [][Arrives =>
       LET e == Head(recentEvents')
           t == AckTarget(e.id, e.ack)
       IN IF e.ack \notin {1, 2, 3} THEN messages' = messages
          ELSE t # Null =>
            messages' = [messages EXCEPT ![t] =
              IF e.ack = 1
                THEN [@ EXCEPT !.status = "SENT",
                               !.sentAt = IF @ = Null THEN now ELSE @]
              ELSE IF e.ack = 2
                THEN [@ EXCEPT !.status = "DELIVERED", !.deliveredAt = now]
              ELSE [@ EXCEPT !.status = "READ", !.readAt = now]]]_vars


\* no row stores x as its externalId
Unknown(x) == \A i \in DOMAIN messages : messages[i].externalId # x

\* C20: an ACK event whose extracted id no Message stores is dropped: no Message
\* changes, no request or dispatch state changes, and the answer is 200
\* { received: true }, also while the store is down.
C20_UnknownAckDropped ==
  [][(/\ Arrives
      /\ Head(recentEvents').event \in EventKinds
      /\ Unknown(ExtractMessageId(Head(recentEvents').id))) =>
       /\ messages' = messages
       /\ httpRes' = Received
       /\ inflight' = inflight
       /\ UNCHANGED ackFrame]_vars

\* the transport has issued one id, to a message whose row was deleted after the
\* send; a MONTHLY message was sent and has no externalId; the ACK 2 for the id
\* of the deleted row was answered 200
C20_AckForDeletedRow ==
  /\ nextExt = 2
  /\ \E i \in 1..(nextId - 1) : ~Exists(i) /\ sendCount[i] = 1
  /\ \E j \in DOMAIN messages :
       /\ messages[j].recurrenceType = "MONTHLY"
       /\ messages[j].status = "SENT"
       /\ messages[j].externalId = Null
  /\ recentEvents # <<>>
  /\ Head(recentEvents).id = <<1>>
  /\ Head(recentEvents).ack = 2
  /\ Unknown(1)
  /\ httpRes = Received


\* the status an ACK code stands for
StatusOfAck(ack) == IF ack = 1 THEN "SENT" ELSE IF ack = 2 THEN "DELIVERED" ELSE "READ"

\* C21: an ACK with a mapped code is applied to a Message whose externalId is the
\* last '_'-separated segment of the payload's message id (the whole id when it
\* has no separator), and to no other row; without such a Message no row changes.
C21_LastSegmentCorrelates ==
  [][(Arrives /\ Head(recentEvents').event \in EventKinds /\ Head(recentEvents').ack \in {1, 2, 3}) =>
       LET e == Head(recentEvents')
           x == e.id[Len(e.id)]
           hits == {i \in DOMAIN messages : messages[i].externalId = x}
       IN IF hits = {} \/ (Len(e.id) = 1 /\ x = EmptyId) THEN messages' = messages
          ELSE \E i \in hits :
                 /\ messages'[i].status = StatusOfAck(e.ack)
                 /\ \A j \in (DOMAIN messages) \ {i} : messages'[j] = messages[j]]_vars

\* the ACK 2 with the id "true_5511999999999@c.us_<x>" has just marked the
\* Message with externalId x Delivered
C21_CompositeIdDelivered ==
  /\ recentEvents # <<>>
  /\ Len(Head(recentEvents).id) = 3
  /\ Head(recentEvents).ack = 2
  /\ \E i \in DOMAIN messages :
       /\ messages[i].externalId = Head(recentEvents).id[3]
       /\ messages[i].status = "DELIVERED"
       /\ messages[i].deliveredAt = Head(recentEvents).timestamp

\* a tick can start for run r: a timer is active and the run is not under way
CanTick(r) == timers # {} /\ cronPc[r] = "idle"

\* C22: a tick whose due-list query or grouping raises changes no Message and no
\* guard entry and leaves the scheduler running with its timer, so that the next
\* tick can start and finds the same due Messages.
C22_FailedTickAbortsOnlyItself ==
  [][events' # events =>
       /\ isRunning' /\ timers' = timers /\ task' = task
       /\ messages' = messages /\ processingMessages' = processingMessages
       /\ cronPc' = cronPc
       /\ \E r \in Runs : CanTick(r)' /\ DueIds' = DueIds /\ DueIds' # {}]_vars

C22_SentAfterFailedTicks ==
  /\ events = MaxEvents
  /\ isRunning
  /\ \E i \in DOMAIN messages : messages[i].status = "SENT" /\ sendCount[i] = 1

\* C24: there is at most one active timer and isRunning holds exactly when the
\* service has a task, which is then the active timer; the switch only goes from
\* stopped to running with one new timer or from running to stopped with none, so
\* a start while running and a stop while stopped change nothing; a scheduler
\* started again can tick.
C24_StartStopIdempotent ==
  /\ [](/\ Cardinality(timers) <= 1
        /\ isRunning <=> task # Null
        /\ isRunning <=> timers # {}
        /\ task # Null => timers = {task}
        /\ isRunning => \A r \in Runs : cronPc[r] = "idle" => CanTick(r))
  /\ [][schedVars' # schedVars =>
          \/ ~isRunning /\ isRunning' /\ timers' = {task'} /\ task' \notin {task, Null}
          \/ isRunning /\ ~isRunning' /\ timers' = {} /\ task' = Null]_vars

C24_TickAfterRestart ==
  /\ task = 2
  /\ isRunning
  /\ \E i \in DOMAIN messages : messages[i].status = "SENT" /\ messages[i].sentAt = now

\* the dispatch of run r's current message ends through the catch block
EndsInCatch(r) == cronPc[r] \in {"failread", "failwrite"} /\ cronPc'[r] \notin {"failread", "failwrite"}

\* C23: when the dispatch of one message ends through the catch block, the tick
\* goes on: the next message of the same owner's group is claimed for sending,
\* after the last one the next owner's group is taken up unshortened, and when
\* the tick is over every message of the batch has been dispatched.
C23_FailureDoesNotAbortBatch ==
  /\ [](cronPc[FirstRun] = "idle" /\ (\E i \in Ids : sendCount[i] > 0) => \A i \in Ids : sendCount[i] >= 1)
  /\ [][EndsInCatch(FirstRun) =>
          LET rest == Tail(CurGroup(FirstRun))
              later == Tail(cronGroups[FirstRun])
          IN /\ CurMsg(FirstRun).id \notin processingMessages'
             /\ IF rest # <<>>
                  THEN /\ cronPc'[FirstRun] = "sending"
                       /\ cronGroups'[FirstRun] = <<rest>> \o later
                       /\ Head(rest).id \in processingMessages'
                  ELSE IF later # <<>>
                    THEN cronPc'[FirstRun] = "check" /\ cronGroups'[FirstRun] = later
                    ELSE cronPc'[FirstRun] = "idle"]_vars

C23_LaterOnesSentAfterFailure ==
  /\ cronPc[FirstRun] = "idle"
  /\ Exists(1) /\ messages[1].status = "FAILED" /\ messages[1].userId = 1
  /\ ~Exists(2) /\ sendCount[2] = 1
  /\ ~Exists(3) /\ sendCount[3] = 1
  /\ nextExt = 3

\* C25: a Message that the transport accepted and that was never marked sent
\* stays SCHEDULED, and once its guard entry is released it is due for the next
\* tick.
C25_LostSentWriteStaysScheduled ==
  \A i \in DOMAIN messages :
    (i \in accepted /\ messages[i].sentAt = Null) =>
      /\ messages[i].status = "SCHEDULED"
      /\ i \notin processingMessages => i \in DueIds

\* C26: no two Messages share an externalId that is not null, and no Message
\* has the empty id of a send that returned no transport identifier.
C26_ExternalIdsDistinctOrNull ==
  \A i \in DOMAIN messages :
    /\ messages[i].externalId # EmptyId
    /\ \A j \in (DOMAIN messages) \ {i} :
         messages[i].externalId # Null => messages[i].externalId # messages[j].externalId

\* C27: a FAILED Message keeps its status and is not handed to the transport
\* in any step other than a step of a send that the user requested.
C27_FailedOnlyLeftByUser ==
  [][\A i \in DOMAIN messages :
       (messages[i].status = "FAILED" /\ manual' = manual /\ bulk' = bulk) =>
         /\ i \in DOMAIN messages'
         /\ messages'[i].status = "FAILED"
         /\ sendCount'[i] = sendCount[i]]_vars

\* the confirmations the handler fetched for the event, before the step
Fetched(e) == FindPending(extractUserIdFromSession(e.session))

\* a classified reply arrives while two or more confirmations are fetched
MatchedReply ==
  /\ Arrives
  /\ ClassifiedReply(Head(recentEvents'))
  /\ Len(Fetched(Head(recentEvents'))) >= 2

\* the confirmation that the arriving event's handler selected
Selected == inflight'[Len(inflight')].id

\* C28: when two or more confirmations are pending, the confirmation selected
\* for a reply has a stored number equal to the sender's, with or without the
\* country code, or the shorter of the two numbers has at least 8 digits; this
\* on both event kinds.
C28_ShortNumbersNeverSuffixMatched ==
  [][(MatchedReply /\ inflight' # inflight) =>
       LET saved == Digits(confirmations[Selected].contactPhone)
           phone == phoneNumber(Head(recentEvents').from)
       IN \/ saved = phone
          \/ WithoutDDI(saved) = WithoutDDI(phone)
          \/ Len(saved) >= 8 /\ Len(phone) >= 8]_vars

\* the least number of a set of numbers
Lowest(S) == CHOOSE k \in S : \A j \in S : k <= j

\* the positions of the fetched list whose stored phone matches the sender
Hits(e) ==
  {k \in 1..Len(Fetched(e)) :
     LET saved == Digits(confirmations[Fetched(e)[k]].contactPhone)
     IN IF e.event = "message" THEN MatchMessage(saved, phoneNumber(e.from))
        ELSE MatchAny(saved, phoneNumber(e.from))}

\* C29: when two or more confirmations are pending, a classified reply selects
\* the first fetched confirmation whose stored phone matches under some strategy
\* and no other; in every step at most one confirmation changes, and it is one
\* that was selected.
C29_ExactlyTheFirstMatch ==
  /\ [][(MatchedReply /\ Hits(Head(recentEvents')) # {}) =>
          LET e == Head(recentEvents')
          IN /\ Len(inflight') = Len(inflight) + 1
             /\ Selected = Fetched(e)[Lowest(Hits(e))]
             /\ confirmations' = confirmations]_vars
  /\ [][\A c \in DOMAIN confirmations :
          confirmations'[c] # confirmations[c] =>
            /\ \E k \in DOMAIN inflight : inflight[k].id = c
            /\ \A d \in (DOMAIN confirmations) \ {c} : confirmations'[d] = confirmations[d]]_vars

C29_NewerOfTwoMatchesResolved ==
  /\ DOMAIN confirmations = {1, 2}
  /\ confirmations[1].contactPhone = PhoneA /\ confirmations[1].status = "PENDING"
  /\ confirmations[2].contactPhone = PhoneFormatted /\ confirmations[2].status = "CONFIRMED"
  /\ Len(recentEvents) = 1 /\ Head(recentEvents).from = JidFull
  /\ inflight = <<>>

\* C30: the stored phone "(11) 98765-4321" and the sender 5511987654321 have the
\* same last ten digits, and a reply of that sender selects the confirmation
\* with that stored phone unless one that was fetched before it matches too.
C30_FormattedPhoneMatches ==
  /\ [](/\ Digits(PhoneFormatted) = <<1, 1, 9, 8, 7, 6, 5, 4, 3, 2, 1>>
        /\ phoneNumber(JidFull) = <<5, 5, 1, 1, 9, 8, 7, 6, 5, 4, 3, 2, 1>>
        /\ sliceLast(Digits(PhoneFormatted), 10) = sliceLast(phoneNumber(JidFull), 10))
  /\ [][(MatchedReply /\ Head(recentEvents').from = JidFull) =>
          LET list == Fetched(Head(recentEvents'))
              own == {k \in 1..Len(list) : confirmations[list[k]].contactPhone = PhoneFormatted}
          IN own # {} =>
               /\ inflight' # inflight
               /\ \E k \in 1..Lowest(own) :
                    /\ Selected = list[k]
                    /\ k < Lowest(own) => k \in Hits(Head(recentEvents'))]_vars

C30_FormattedSelectedAmongTwo ==
  /\ DOMAIN confirmations = {1, 2}
  /\ confirmations[1].contactPhone = PhoneFormatted /\ confirmations[1].status = "DENIED"
  /\ confirmations[2].contactPhone = PhoneB /\ confirmations[2].status = "PENDING"
  /\ Len(recentEvents) = 1 /\ Head(recentEvents).from = JidFull

\* the event lacks its payload, or the property its handler works on: the
\* status of a session.status event, the message id or the ack of an ACK event
Malformed(e) ==
  IF "payload" \in DOMAIN e THEN ~e.payload \/ "status" \notin e.has
  ELSE /\ e.event = "message.ack" \/ (e.event = "message.any" /\ e.fromMe)
       /\ e.id = <<EmptyId>> \/ e.ack = Null

\* C31: a webhook request with a malformed payload is answered, and it changes
\* no Message, no Confirmation and no session record.
C31_MalformedPayloadDropped ==
  [][(Arrives /\ Malformed(Head(recentEvents'))) =>
       /\ messages' = messages
       /\ confirmations' = confirmations /\ inflight' = inflight
       /\ whatsAppSession' = whatsAppSession
       /\ httpRes' \in {Received, ServerError}]_vars

\* the step writes the reply data of an inbound event to Confirmation id
MatcherWrites(id) ==
  \E k \in 1..Len(inflight) :
    /\ inflight[k].id = id
    /\ confirmations' = PatchConfirmation(id, inflight[k].data)
    /\ inflight' = Without(inflight, k)

\* the step is an accepted PUT /confirmations/:id request for Confirmation id
ManualWrites(id) ==
  /\ httpRes' = Updated
  /\ \E st \in {"CONFIRMED", "DENIED"}, r \in {NoText, <<"ok">>} :
       confirmations' = PatchConfirmation(id, ManualData(st, r))

\* C32 as stated: an existing Confirmation is changed only by the Confirmation
\* Matcher writing an inbound reply, and it disappears only in a delete request.
C32_OnlyMatcherChanges ==
  [][\A id \in DOMAIN confirmations :
       /\ id \notin DOMAIN confirmations' => httpRes' = NoContent
       /\ (id \in DOMAIN confirmations' /\ confirmations'[id] # confirmations[id]) => MatcherWrites(id)]_vars

\* C32 amended: an existing Confirmation is changed only by the Confirmation
\* Matcher writing an inbound reply or by an accepted update request of an
\* authenticated user, which sets it to CONFIRMED or DENIED; it disappears only
\* in a delete request.
C32_MatcherOrUpdateRequest ==
  [][\A id \in DOMAIN confirmations :
       /\ id \notin DOMAIN confirmations' => httpRes' = NoContent
       /\ (id \in DOMAIN confirmations' /\ confirmations'[id] # confirmations[id]) =>
            MatcherWrites(id) \/ ManualWrites(id)]_vars

\* a Confirmation resolved with a response no inbound event carried
C32_ResolvedByRequest ==
  \E id \in DOMAIN confirmations :
    /\ confirmations[id].status = "DENIED" /\ confirmations[id].response = <<"ok">>
    /\ httpRes = Updated

\* Message i is Scheduled and due
DueScheduled(i) == i \in DueIds

\* the session of the owner of Message i is ready
OwnerReady(i) == Exists(i) => session[messages[i].userId] = "WORKING"

\* C33: with the timer firing again and again and every awaited call returning,
\* once the owner's session stays ready each Message that is Scheduled and due
\* leaves Scheduled (Sent, Failed or deleted) and no due Message stays behind.
C33_SkippedIsRetried ==
  \A i \in RetryIds : <>[]OwnerReady(i) => <>[]~DueScheduled(i)

\* the one run has written Sent for Message i, claimed once, after Message j, which
\* stands behind i in every due list, was sent and deleted: an earlier tick
\* passed over i because its owner's session was not ready
C33_SentOnLaterTick ==
  \E i, j \in RetryIds :
    /\ i < j /\ sendCount[i] = 1 /\ sendCount[j] = 1
    /\ cronPc[FirstRun] = "expand" /\ CurMsg(FirstRun).id = i
    /\ messages[i].status = "SENT"
    /\ ~Exists(j)

\* run r stands behind its own Sent write of a MONTHLY Message
SentMonthly(r) == cronPc[r] = "expand" /\ CurMsg(r).recurrenceType = "MONTHLY"

\* the Messages that are clones of Message i
ClonesOf(i) == {j \in DOMAIN messages : messages[j].isRecurringClone /\ messages[j].originalMessageId = i}

\* C34: a run comes to stand behind its Sent write only by the step that marks
\* the accepted Message Sent; a Message is created by the dispatcher only as the
\* clone of a MONTHLY Message by a run standing there; a run whose transport send
\* or Sent write failed creates none, and no clone names a Message that is not
\* MONTHLY.
C34_CloneOnlyAfterSentMonthly ==
  /\ [][\A r \in Runs :
          (cronPc'[r] = "expand" /\ cronPc[r] # "expand") =>
            /\ cronPc[r] = "sending" /\ CurMsg(r).id \in accepted'
            /\ messages'[CurMsg(r).id].status = "SENT" /\ messages'[CurMsg(r).id].sentAt = now]_vars
  /\ [][\A id \in (DOMAIN messages') \ (DOMAIN messages) :
          \E r \in Runs : SentMonthly(r) /\ messages'[id] = CloneOf(CurMsg(r), id)]_vars
  /\ [][\A r \in Runs :
          (cronPc[r] \in {"sending", "failread", "failwrite"} /\ cronPc'[r] # cronPc[r]) =>
            (DOMAIN messages') \subseteq (DOMAIN messages)]_vars
  /\ [](\A i \in DOMAIN messages : messages[i].recurrenceType # "MONTHLY" => ClonesOf(i) = {})

\* of two MONTHLY Messages one was sent and has its clone; the other was accepted
\* by the transport, its Sent write failed, and it has no clone
C34_NoCloneAfterLostWrite ==
  \E i, j \in DOMAIN messages :
    /\ messages[i].recurrenceType = "MONTHLY" /\ messages[j].recurrenceType = "MONTHLY"
    /\ i \in accepted /\ messages[i].sentAt = Null /\ ClonesOf(i) = {}
    /\ \A r \in Runs : cronPc[r] = "idle"
    /\ messages[j].status = "SENT" /\ ClonesOf(j) # {}

\* two events that carry one inbound reply, once as "message" and once as
\* "message.any"
SameReply(a, b) == a.session = b.session /\ a.from = b.from /\ a.body = b.body /\ a.event # b.event

\* Confirmation c carries the answer of event e
ResolvedBy(c, e) ==
  /\ confirmations[c].status = newStatus(responseLower(e))
  /\ confirmations[c].response \in {responseLower(e), extractMessageText(e)}

\* C35: when the second event of one inbound reply arrives after the first
\* event's handler has resolved a Confirmation, the second selects no
\* Confirmation: one reply resolves at most one.
C35_OneReplyOneConfirmation ==
  [][(/\ Arrives /\ recentEvents # <<>> /\ inflight = <<>>
      /\ SameReply(Head(recentEvents), Head(recentEvents'))
      /\ ClassifiedReply(Head(recentEvents))
      /\ \E c \in DOMAIN confirmations : ResolvedBy(c, Head(recentEvents)))
       => inflight' = inflight]_vars

\* C36: a Confirmation that is CONFIRMED or DENIED keeps its status and its
\* response in every step, whatever the order in which the handlers of two
\* inbound replies read the pending Confirmations and write.
C36_ResolvedStaysResolved ==
  [][\A c \in DOMAIN confirmations :
       confirmations[c].status # "PENDING" =>
         /\ confirmations'[c].status = confirmations[c].status
         /\ confirmations'[c].response = confirmations[c].response]_vars

\* C37: no two Messages of one recurrence chain, the root and the clones that
\* name it, are Scheduled at the same time.
C37_OneScheduledPerChain ==
  \A i, j \in DOMAIN messages :
    (i # j /\ RootOf(messages[i]) = RootOf(messages[j])) =>
      ~(messages[i].status = "SCHEDULED" /\ messages[j].status = "SCHEDULED")

\* C38: no step changes content or scheduledAt of a Message that is Sent,
\* Delivered or Read, and the write of an edit changes no status.
C38_SentNeverEdited ==
  [][\A i \in (DOMAIN messages) \cap (DOMAIN messages') :
       /\ Reached(messages[i].status) =>
            /\ messages'[i].content = messages[i].content
            /\ messages'[i].scheduledAt = messages[i].scheduledAt
       /\ (edit.pc = "write" /\ edit' = NoEdit) => messages'[i].status = messages[i].status]_vars

\* C39: every Scheduled Message has a scheduledAt, and once that instant has
\* come it is in the scheduler's due list.
C39_ScheduledHasInstant ==
  \A i \in DOMAIN messages :
    messages[i].status = "SCHEDULED" =>
      /\ messages[i].scheduledAt # Null
      /\ messages[i].scheduledAt <= now => i \in DueIds

\* a clone whose content was edited by a request that carried no scheduledAt and
\* a reminder are Scheduled side by side
C39_EditedCloneAndReminder ==
  \E i, k \in DOMAIN messages :
    /\ messages[i].isRecurringClone /\ messages[i].status = "SCHEDULED"
    /\ messages[i].content = EditedContent /\ messages[i].scheduledAt = NextMonth(now)
    /\ messages[k].status = "SCHEDULED" /\ messages[k].scheduledAt = now - 1

====
